---- MODULE Spec2Model ----
(***************************************************************************)
(* A model of the data resolution layer of the BGCA archive explorer:      *)
(* ArchiveLoader (src/js/archive-loader.js), the per-artifact fallback     *)
(* chains with their cache, file discovery and the assembly of the video   *)
(* list.                                                                   *)
(***************************************************************************)
EXTENDS Integers, Sequences, FiniteSets, TLC

VARIABLES
    directoryHandle,  \* ArchiveLoader.directoryHandle
    cache,            \* ArchiveLoader.cache: key -> payload
    calls,            \* the load* calls of the session, in the order they were started
    resolved,         \* history: key -> the reads issued by the call that resolved it
                      \* with a payload (keys resolved since the last clearCache)
    volatile,         \* TRUE: every read may yield any outcome; FALSE: reads follow fs
    fs,               \* the sources of the session (used when volatile is FALSE)
    archive,          \* what the discovery API and the index files hold
    fileDiscovery,    \* ArchiveLoader.fileDiscovery
    dcalls,           \* the discoverFiles calls of the session, in start order
    videos,           \* what the last buildVideoData returned
    dataManager,      \* DataManager: the video list and the comments loaded so far
    grid,             \* ArchiveExplorer: the last query of loadVideoGrid and its result
    comments,         \* the comments of one video: their file and the cached array
    tree,             \* the comment tree the last query returned
    exportService,    \* ExportService: its flags and the runs of its exports
    app,              \* ArchiveExplorer.startApp: its position and what it has shown
    detail,           \* the video-detail view: the selected video and its panels
    extractor,        \* a filename and what extractShortcode made of it
    analysis          \* the comments of an analysis and its results

loaderVars == <<directoryHandle, cache, calls, resolved, volatile, fs>>

archiveVars == <<archive, fileDiscovery, dcalls, videos>>

managerVars == <<dataManager, grid, comments, tree, exportService>>

viewVars == <<app, detail, extractor, analysis>>

vars == <<directoryHandle, cache, calls, resolved, volatile, fs,
          archive, fileDiscovery, dcalls, videos, dataManager, grid,
          comments, tree, exportService, app, detail, extractor, analysis>>

(***************************************************************************)
(* Bounds                                                                  *)
(***************************************************************************)
MaxCalls == 2

MaxLen == 3

\* the pages of a query
MaxPage == 3

\* the runs of exportAllVideos in a session
MaxExports == 2

\* showVideoDetail is called at most MaxOpens times in a session
MaxOpens == 2

\* a filename of the extraction sessions is made of at most MaxParts parts
MaxParts == 3

\* the comments of an analysis, not counting those that nobody liked
MaxComments == 2

(***************************************************************************)
(* Artifact types, ids, handles                                            *)
(***************************************************************************)
Types == {"transcript", "summary", "comments", "metadata", "keywords"}

PerVideoTypes == {"transcript", "summary", "comments"}

VideoIds == {"AAAAAAAAAAA"}

NoHandle == "null"

Handles == {"archive"}

\* the ids a load call of type t takes: the index loaders take none
CallIds(t) == IF t \in PerVideoTypes THEN VideoIds ELSE {""}

\* `transcript_${shortcode}`, `summary_${shortcode}`, `comments_${shortcode}`,
\* 'metadata', 'keywords'
CacheKey(t, id) == <<t, id>>

Keys == UNION {{CacheKey(t, id) : id \in CallIds(t)} : t \in Types}

(***************************************************************************)
(* The steps of a chain.  A step is one awaited source attempt.            *)
(***************************************************************************)
NumPatterns == 4

St(src, k) == [src |-> src, k |-> k]

Dir == St("dir", 0)
File(k) == St("file", k)
Root == St("root", 0)
Flat == St("flat", 0)
Bundled == St("bundled", 0)
End == St("end", 0)
Done == St("done", 0)

\* the position of a step in the documented order of sources
Rank(st) ==
    CASE st.src = "dir" -> 1
      [] st.src = "file" -> 1 + st.k
      [] st.src = "root" -> 2 + NumPatterns
      [] st.src = "flat" -> 3 + NumPatterns
      [] st.src = "bundled" -> 4 + NumPatterns
      [] OTHER -> 5 + NumPatterns

\* the suffixes of the candidate file names `${shortcode}<suffix>`
Patterns(t) ==
    CASE t = "transcript" -> <<"_en_auto_ytdlp.txt", ".txt", "_en.txt", "_transcript.txt">>
      [] t = "summary" -> <<"_summary.txt", ".txt", "_summary.json", ".json">>
      [] t = "comments" -> <<"_comments.json", ".json", "_comments.txt", ".txt">>
      [] OTHER -> <<>>

\* the first step of the chain when a directory handle is set
FirstStep(t) == IF t \in PerVideoTypes THEN Dir ELSE Root

\* steps that dereference this.directoryHandle when they are started
NeedsHandle(st) == st.src \in {"dir", "root", "flat"}

(***************************************************************************)
(* Outcomes of a source attempt                                            *)
(*   nodir     getDirectoryHandle rejects                                  *)
(*   ok        getDirectoryHandle resolves                                 *)
(*   missing   getFileHandle / getFile / text rejects                      *)
(*   found     the file was read (comments: valid JSON holding comments)   *)
(*   undated   comments were read and one of them has no published_at      *)
(*   notjson   comments file that is not JSON                              *)
(*   nodata    comments file: JSON without an array of comments            *)
(*   nofile    the index file (or its folder) cannot be opened             *)
(*   badjson   JSON.parse / response.json() rejects                        *)
(*   badshape  the JSON is null: indexing it raises a TypeError            *)
(*   lacks     the index has no (truthy) entry for the id                  *)
(*   has       the index has an entry for the id (or: the index loaded)    *)
(*   neterr    fetch rejects                                               *)
(*   notok     the response status is not a success                        *)
(*   nohandle  this.directoryHandle is null when the step dereferences it  *)
(***************************************************************************)
Outcomes(t, st) ==
    CASE st.src = "dir" -> {"ok", "nodir"}
      [] st.src = "file" ->
            IF t = "comments"
            THEN {"missing", "notjson", "badshape", "nodata", "found", "undated"}
            ELSE {"missing", "found"}
      [] st.src \in {"root", "flat"} ->
            CASE t = "comments" -> {"nofile", "badjson", "badshape", "lacks", "has", "undated"}
              [] t \in {"transcript", "summary"} ->
                    {"nofile", "badjson", "badshape", "lacks", "has"}
              [] OTHER -> {"nofile", "badjson", "badshape", "has"}
      [] st.src = "bundled" ->
            CASE t = "comments" ->
                    {"neterr", "notok", "badjson", "badshape", "lacks", "has", "undated"}
              [] t \in {"transcript", "summary"} ->
                    {"neterr", "notok", "badjson", "badshape", "lacks", "has"}
              [] OTHER -> {"neterr", "notok", "badjson", "badshape", "has"}
      [] OTHER -> {}

\* outcomes that raise an exception at the step
Throws(t, st, o) ==
    \/ o \in {"nodir", "missing", "nofile", "badjson", "badshape", "neterr", "nohandle"}
    \/ o = "notok" /\ t \in {"metadata", "keywords"}

\* outcomes that give the step a payload to return
Yields(t, st, o) ==
    \/ st.src = "file" /\ o \in {"found", "nodata", "undated"}
    \/ st.src \in {"root", "flat", "bundled"} /\ o \in {"has", "undated"}


(***************************************************************************)
(* try/catch structure of the loaders                                      *)
(***************************************************************************)
\* the steps of a loader that are awaited inside a try block whose catch
\* swallows the exception
TryBlocks(t) ==
    CASE t = "transcript" -> {"dir", "file", "flat", "bundled"}
      [] t = "summary" -> {"dir", "file", "root", "flat", "bundled"}
      [] t = "comments" -> {"dir", "file", "root", "flat", "bundled"}
      [] t = "metadata" -> {"root", "flat", "bundled"}
      [] t = "keywords" -> {"root", "bundled"}

\* a variant in which loadComments reads the bundled index outside any try
UnguardedBundled(t, st) == st.src \in TryBlocks(t) /\ ~(t = "comments" /\ st.src = "bundled")

Guarded(t, st) == st.src \in TryBlocks(t)

\* a variant that asks the bundled index before the user's flat index files
OnMissBundledFirst(t, st, o) ==
    CASE st.src = "dir" -> IF o = "ok" THEN File(1) ELSE Bundled
      [] st.src = "file" -> IF st.k < NumPatterns THEN File(st.k + 1) ELSE Bundled
      [] st.src = "bundled" -> IF t \in {"metadata", "keywords"} THEN End ELSE Flat
      [] st.src = "root" -> Bundled
      [] OTHER -> End

\* the step the chain goes to when step st gave no payload, with outcome o
OnMiss(t, st, o) ==
    CASE st.src = "dir" ->
            IF o = "ok" THEN File(1)
            ELSE IF t = "transcript" THEN Flat ELSE Root
      [] st.src = "file" ->
            IF st.k < NumPatterns THEN File(st.k + 1)
            ELSE IF t = "comments" THEN Root ELSE Bundled
      [] st.src = "root" ->
            IF t = "keywords" THEN Bundled
            ELSE IF t = "summary" /\ ~Throws(t, st, o) THEN Bundled
            ELSE Flat
      [] st.src = "flat" -> Bundled
      [] OTHER -> End

\* what a loader returns when its chain is exhausted
Blank(kind) ==
    [kind |-> kind, video_id |-> "", body |-> "", source_file |-> <<"", "", "">>,
     default_date |-> -1]

Exhausted(t) ==
    CASE t = "comments" -> Blank("emptylist")
      [] t = "keywords" -> Blank("emptymap")
      [] OTHER -> Blank("null")

Thrown == Blank("thrown")

Pending == Blank("pending")

\* the source_file field of the payload built at step st
SourceFile(t, id, st) ==
    CASE t = "transcript" /\ st.src = "file" -> <<"bgca_yt_subtitles", id, Patterns(t)[st.k]>>
      [] t = "transcript" /\ st.src = "flat" -> <<"bgca_yt_explorer_data/transcripts.json", "", "">>
      [] t = "transcript" /\ st.src = "bundled" -> <<"included_data/transcripts.json", "", "">>
      [] t = "summary" /\ st.src = "file" -> <<"bgca_yt_summaries", id, Patterns(t)[st.k]>>
      [] t = "summary" /\ st.src = "root" -> <<"summaries.json", "", "">>
      [] t = "summary" /\ st.src = "flat" ->
            <<"user_directory/bgca_yt_explorer_data/summaries.json", "", "">>
      [] t = "summary" /\ st.src = "bundled" -> <<"summaries.json", "", "">>
      [] OTHER -> <<"", "", "">>

\* the payload built at step st from outcome o
PayloadAt(t, id, st, o, date) ==
    [kind |-> "payload",
     video_id |-> id,
     body |-> CASE t = "comments" -> IF o = "nodata" THEN "nocomments" ELSE "comments"
                [] t = "metadata" -> "videos"
                [] t = "keywords" -> "keywordsByShortcode"
                [] OTHER -> "text",
     source_file |-> SourceFile(t, id, st),
     \* published_at of a comment without one: new Date(), the time of the
     \* call that normalises the comments (calls are numbered in start order)
     default_date |-> IF o = "undated" THEN date ELSE -1]


(***************************************************************************)
(* The load* calls                                                         *)
(***************************************************************************)
\* what a read of step st yields now
FsRead(t, st) ==
    CASE st.src = "dir" -> fs.dir
      [] st.src = "file" -> IF fs.dir = "ok" THEN fs.file[st.k] ELSE "missing"
      [] st.src = "root" -> fs.root
      [] st.src = "flat" -> fs.flat
      [] OTHER -> fs.bundled

\* the outcomes a read of step st can have: any of them while the sources
\* are volatile (comments then carry their dates), the one the static
\* sources give otherwise
Reads(t, id, st) ==
    IF volatile THEN Outcomes(t, st) \ {"undated"} ELSE {FsRead(t, st)}

\* The step a call waits at after control reaches step st: a step that
\* dereferences a null this.directoryHandle raises a TypeError at once, and
\* the chain goes on from its catch block without any read.
RECURSIVE Settle(_, _, _)
Settle(t, st, handle) ==
    IF st = End THEN End
    ELSE IF NeedsHandle(st) /\ handle = NoHandle
    THEN IF Guarded(t, st) THEN Settle(t, OnMiss(t, st, "nohandle"), handle)
         ELSE St("throw", 0)
    ELSE st

NewCall(t, id, pc, res) ==
    [type |-> t, id |-> id, pc |-> pc, res |-> res, trace |-> <<>>,
     \* history: the reads of the call that had resolved the key when this
     \* call started (0: the key was not resolved)
     prior |-> IF CacheKey(t, id) \in DOMAIN resolved THEN resolved[CacheKey(t, id)] ELSE 0]

\* cache.set(cacheKey, payload)
CacheSet(c, key, payload) ==
    [k \in DOMAIN c \cup {key} |-> IF k = key THEN payload ELSE c[k]]

\* a variant that returns the payload without storing it
ReturnPayloadUncached(i, payload) ==
    LET c == calls[i] IN
    /\ cache' = cache
    /\ resolved' = CacheSet(resolved, CacheKey(c.type, c.id), Len(c.trace) + 1)
    /\ calls' = [calls EXCEPT ![i].pc = Done, ![i].res = payload,
                              ![i].trace = Append(c.trace, c.pc)]

\* the call returns a payload: it is stored in the cache first
ReturnPayload(i, payload) ==
    LET c == calls[i] IN
    /\ cache' = CacheSet(cache, CacheKey(c.type, c.id), payload)
    /\ resolved' = CacheSet(resolved, CacheKey(c.type, c.id), Len(c.trace) + 1)
    /\ calls' = [calls EXCEPT ![i].pc = Done, ![i].res = payload,
                              ![i].trace = Append(c.trace, c.pc)]

\* a variant that stores the empty result under the key as well
ReturnOtherCached(i, res) ==
    /\ calls' = [calls EXCEPT ![i].pc = Done, ![i].res = res,
                              ![i].trace = Append(calls[i].trace, calls[i].pc)]
    /\ cache' = CacheSet(cache, CacheKey(calls[i].type, calls[i].id), res)
    /\ UNCHANGED resolved

\* the call returns without a payload, or an exception leaves it
ReturnOther(i, res) ==
    /\ calls' = [calls EXCEPT ![i].pc = Done, ![i].res = res,
                              ![i].trace = Append(calls[i].trace, calls[i].pc)]
    /\ UNCHANGED <<cache, resolved>>

\* loadTranscript / loadSummary / loadComments / loadVideoMetadata /
\* loadKeywords up to the first await
LoadStart(t, id) ==
    /\ Len(calls) < MaxCalls
    /\ \A j \in 1..Len(calls) : calls[j].type = t
    /\ volatile \/ t = fs.type
    /\ IF CacheKey(t, id) \in DOMAIN cache
       THEN calls' = Append(calls, NewCall(t, id, Done, cache[CacheKey(t, id)]))
       ELSE calls' = Append(calls, NewCall(t, id,
                        IF directoryHandle # NoHandle THEN FirstStep(t) ELSE Bundled,
                        Pending))
    /\ UNCHANGED <<directoryHandle, cache, resolved, volatile, fs>>
    /\ UNCHANGED archiveVars
    /\ UNCHANGED <<managerVars, viewVars>>

\* the awaited read of call i completes and the loader runs to its next await
\* or to its return
LoadStep(i) ==
    LET c == calls[i] IN
    /\ c.pc # Done
    /\ \E o \in Reads(c.type, c.id, c.pc) :
          IF Yields(c.type, c.pc, o)
          THEN ReturnPayload(i, PayloadAt(c.type, c.id, c.pc, o, i))
          ELSE IF Throws(c.type, c.pc, o) /\ ~Guarded(c.type, c.pc)
          THEN ReturnOther(i, Thrown)
          ELSE LET nxt == Settle(c.type, OnMiss(c.type, c.pc, o), directoryHandle) IN
               IF nxt = End THEN ReturnOther(i, Exhausted(c.type))
               ELSE IF nxt.src = "throw" THEN ReturnOther(i, Thrown)
               ELSE /\ calls' = [calls EXCEPT ![i].pc = nxt,
                                              ![i].trace = Append(c.trace, c.pc)]
                    /\ UNCHANGED <<cache, resolved>>
    /\ UNCHANGED <<directoryHandle, volatile, fs>>
    /\ UNCHANGED archiveVars
    /\ UNCHANGED <<managerVars, viewVars>>

setDirectoryHandle(h) ==
    /\ h # directoryHandle
    /\ directoryHandle' = h
    /\ UNCHANGED <<cache, calls, resolved, volatile, fs>>
    /\ UNCHANGED archiveVars
    /\ UNCHANGED <<managerVars, viewVars>>

clearCache ==
    /\ cache # <<>>
    /\ cache' = <<>>
    /\ resolved' = <<>>
    /\ UNCHANGED <<directoryHandle, calls, volatile, fs>>
    /\ UNCHANGED archiveVars
    /\ UNCHANGED <<managerVars, viewVars>>

(***************************************************************************)
(* JavaScript values met by discovery and assembly                         *)
(***************************************************************************)
\* video ids: both match [a-zA-Z0-9_-]{11}
Shortcodes == {"AAAAAAAAAAA", "constructor"}

\* a video_id of a metadata entry that is not an id
MalformedIds == {"abc"}

\* the order in which Object.keys lists the ids of an object
KeyOrder == <<"AAAAAAAAAAA", "constructor", "abc">>

\* the characters of an id
IdChars(id) ==
    CASE id = "AAAAAAAAAAA" -> [k \in 1..11 |-> "A"]
      [] id = "constructor" -> <<"c", "o", "n", "s", "t", "r", "u", "c", "t", "o", "r">>
      [] id = "abc" -> <<"a", "b", "c">>
      [] OTHER -> <<>>

IdLength == 11

\* [a-zA-Z0-9_-]
IdAlphabet ==
    {"a", "b", "c", "d", "e", "f", "g", "h", "i", "j", "k", "l", "m", "n", "o", "p", "q",
     "r", "s", "t", "u", "v", "w", "x", "y", "z", "A", "B", "C", "D", "E", "F", "G", "H",
     "I", "J", "K", "L", "M", "N", "O", "P", "Q", "R", "S", "T", "U", "V", "W", "X", "Y",
     "Z", "0", "1", "2", "3", "4", "5", "6", "7", "8", "9", "_", "-"}

\* the id is exactly IdLength characters of the alphabet
MatchesIdGrammar(id) ==
    /\ Len(IdChars(id)) = IdLength
    /\ \A k \in 1..Len(IdChars(id)) : IdChars(id)[k] \in IdAlphabet

\* the properties every object inherits from Object.prototype
ObjectPrototype ==
    {"constructor", "hasOwnProperty", "isPrototypeOf", "propertyIsEnumerable",
     "toLocaleString", "toString", "valueOf", "__proto__"}

\* A discovery map is modelled by the set of its own keys; a bulk index by
\* the function from its own keys to their values, "" standing for a falsy
\* value.  The inherited properties are functions, which are truthy.
\* Object.keys(obj)
ObjectKeys(obj) == SelectSeq(KeyOrder, LAMBDA k : k \in obj)

\* key in obj
In(key, obj) == key \in obj \/ key \in ObjectPrototype

\* if (obj[key])
TruthyAt(obj, key) ==
    IF key \in DOMAIN obj THEN obj[key] # "" ELSE key \in ObjectPrototype

\* a field of a metadata entry as JSON gives it: absent, a string (a
\* sequence of characters) or a number (an integer here)
Undefined == [t |-> "undefined", s |-> <<>>, n |-> 0]

Str(s) == [t |-> "string", s |-> s, n |-> 0]

Num(n) == [t |-> "number", s |-> <<>>, n |-> n]

Falsy(raw) ==
    \/ raw.t = "undefined"
    \/ raw.t = "string" /\ raw.s = <<>>
    \/ raw.t = "number" /\ raw.n = 0

\* a || b
Or(a, b) == IF Falsy(a) THEN b ELSE a

DigitChars == {"0", "1", "2", "3", "4", "5", "6", "7", "8", "9"}

DigitValue(ch) ==
    CASE ch = "0" -> 0 [] ch = "1" -> 1 [] ch = "2" -> 2 [] ch = "3" -> 3
      [] ch = "4" -> 4 [] ch = "5" -> 5 [] ch = "6" -> 6 [] ch = "7" -> 7
      [] ch = "8" -> 8 [] OTHER -> 9

NaN == [nan |-> TRUE, v |-> 0]

Number(v) == [nan |-> FALSE, v |-> v]

RECURSIVE SkipWhiteSpace(_)
SkipWhiteSpace(s) ==
    IF s # <<>> /\ s[1] = " " THEN SkipWhiteSpace(Tail(s)) ELSE s

\* the longest prefix of s made of digits
RECURSIVE LeadingDigits(_)
LeadingDigits(s) ==
    IF s # <<>> /\ s[1] \in DigitChars THEN <<s[1]>> \o LeadingDigits(Tail(s)) ELSE <<>>

RECURSIVE DecimalValue(_, _)
DecimalValue(digits, acc) ==
    IF digits = <<>> THEN acc
    ELSE DecimalValue(Tail(digits), 10 * acc + DigitValue(digits[1]))

\* parseInt(string) for strings without a 0x prefix
ParseIntString(s) ==
    LET t == SkipWhiteSpace(s)
        signed == t # <<>> /\ t[1] \in {"-", "+"}
        digits == LeadingDigits(IF signed THEN Tail(t) ELSE t)
    IN  IF digits = <<>> THEN NaN
        ELSE IF signed /\ t[1] = "-" THEN Number(0 - DecimalValue(digits, 0))
        ELSE Number(DecimalValue(digits, 0))

\* parseInt(raw): the argument is converted to a string first
parseInt(raw) ==
    CASE raw.t = "string" -> ParseIntString(raw.s)
      [] raw.t = "number" -> Number(raw.n)
      [] OTHER -> NaN

\* parseInt(a || b) || 0
CountOr(a, b) ==
    LET p == parseInt(Or(a, b)) IN
    IF p.nan \/ p.v = 0 THEN 0 ELSE p.v

\* parseInt(a || undefined) || 0
CountOf(raw) == CountOr(raw, Undefined)

(***************************************************************************)
(* Discovery and assembly                                                  *)
(***************************************************************************)
NoMaps == [transcripts |-> {}, summaries |-> {}, comments |-> {}, videos |-> {}]

\* this.fileDiscovery = null
NoDiscovery == [success |-> FALSE, discovery |-> NoMaps]

\* the answer of api/archive-api.php?action=discover_all
ApiDiscovery(a) == [success |-> TRUE, discovery |-> a.listing]

\* the ids of the metadata entries that have one
RECURSIVE EntryIds(_)
EntryIds(metadata) ==
    IF metadata = <<>> THEN {}
    ELSE (IF metadata[1].video_id # "" THEN {metadata[1].video_id} ELSE {})
         \cup EntryIds(Tail(metadata))

\* the map fallbackDiscovery builds from the metadata and the bulk indexes
FallbackMaps(a) ==
    [transcripts |-> {id \in EntryIds(a.metadata) : TruthyAt(a.indexes.transcripts, id)},
     summaries |-> {id \in EntryIds(a.metadata) : TruthyAt(a.indexes.summaries, id)},
     comments |-> {id \in EntryIds(a.metadata) : TruthyAt(a.indexes.comments, id)},
     videos |-> EntryIds(a.metadata)]

\* the value of this.fileDiscovery after fallbackDiscovery, which throws
\* when no metadata can be loaded
fallbackDiscovery(a, current) ==
    IF a.metadata_ok THEN [success |-> TRUE, discovery |-> FallbackMaps(a)] ELSE current

\* a variant of new Set([...]) that keeps every occurrence
KeepAll(seq) == seq

\* new Set([...]): the first occurrence of each element, in order
RECURSIVE Unique(_)
Unique(seq) ==
    IF seq = <<>> THEN <<>>
    ELSE LET front == Unique(SubSeq(seq, 1, Len(seq) - 1))
             last == seq[Len(seq)]
         IN  IF \E i \in 1..Len(front) : front[i] = last THEN front
             ELSE Append(front, last)

\* infoData?.field when infoData is null: the loader of archive-loader.js
\* reads no info file, the older loader gets null when the file is missing
NoInfo ==
    [title |-> "", view_count |-> Undefined, like_count |-> Undefined,
     comment_count |-> Undefined, duration |-> Undefined]

\* metadataEntry?.field for the entry metadata.find gives: the first entry
\* with the id, all fields absent when there is none
NoEntry ==
    [video_id |-> "", title |-> "", view_count |-> Undefined, like_count |-> Undefined,
     comment_count |-> Undefined, duration |-> Undefined]

RECURSIVE Find(_, _)
Find(metadata, id) ==
    IF metadata = <<>> THEN NoEntry
    ELSE IF metadata[1].video_id = id THEN metadata[1]
    ELSE Find(Tail(metadata), id)

\* one element of the list buildVideoData returns
VideoData(shortcode, maps, metadata, keywords, infoData) ==
    LET metadataEntry == Find(metadata, shortcode) IN
    [video_id |-> shortcode,
     title |-> IF metadataEntry.title # "" THEN <<metadataEntry.title>>
               ELSE IF infoData.title # "" THEN <<infoData.title>>
               ELSE <<"BGCA Video", shortcode>>,
     view_count |-> CountOr(metadataEntry.view_count, infoData.view_count),
     like_count |-> CountOr(metadataEntry.like_count, infoData.like_count),
     comment_count |-> CountOr(metadataEntry.comment_count, infoData.comment_count),
     duration |-> CountOr(metadataEntry.duration, infoData.duration),
     has_transcript |-> In(shortcode, maps.transcripts),
     has_summary |-> In(shortcode, maps.summaries),
     has_comments |-> In(shortcode, maps.comments),
     has_video_file |-> In(shortcode, maps.videos),
     keywords |-> IF shortcode \in keywords THEN <<"youth">> ELSE <<>>]

\* the list buildVideoData returns
VideoList(maps, metadata, keywords, infoData) ==
    LET allShortcodes == Unique(ObjectKeys(maps.transcripts) \o ObjectKeys(maps.summaries)
                                \o ObjectKeys(maps.comments) \o ObjectKeys(maps.videos))
    IN  [i \in 1..Len(allShortcodes) |->
            VideoData(allShortcodes[i], maps, metadata, keywords, infoData)]

NotBuilt == [built |-> FALSE, list |-> <<>>]

\* the cache after loadVideoMetadata, which stores the entries it could load
MetadataCached(c) ==
    IF archive.metadata_ok
    THEN CacheSet(c, CacheKey("metadata", ""), PayloadAt("metadata", "", Bundled, "has", 0))
    ELSE c

\* the cache after loadKeywords has loaded ./data/keywords.json
KeywordsCached(c) ==
    CacheSet(c, CacheKey("keywords", ""), PayloadAt("keywords", "", Bundled, "has", 0))

\* the outcomes of the request to the discovery API
ApiReads == IF volatile THEN {"up", "down"} ELSE {archive.api}

\* discoverFiles up to its first await
DiscoverStart ==
    /\ Len(dcalls) < MaxCalls
    /\ dcalls' = Append(dcalls,
          IF fileDiscovery.success
          THEN [pc |-> "done", res |-> fileDiscovery, reads |-> 0]
          ELSE [pc |-> "api", res |-> NoDiscovery, reads |-> 0])
    /\ UNCHANGED <<archive, fileDiscovery, videos>>
    /\ UNCHANGED loaderVars
    /\ UNCHANGED <<managerVars, viewVars>>

\* the answer of the discovery API arrives, or fallbackDiscovery has loaded
\* the metadata and the indexes
DiscoverStep(i) ==
    LET c == dcalls[i] IN
    /\ c.pc # "done"
    /\ IF c.pc = "api"
       THEN \E o \in ApiReads :
               IF o = "up"
               THEN /\ fileDiscovery' = ApiDiscovery(archive)
                    /\ dcalls' = [dcalls EXCEPT ![i] =
                          [pc |-> "done", res |-> ApiDiscovery(archive), reads |-> 1]]
               ELSE /\ dcalls' = [dcalls EXCEPT ![i].pc = "fallback", ![i].reads = 1]
                    /\ UNCHANGED fileDiscovery
       ELSE /\ fileDiscovery' = fallbackDiscovery(archive, fileDiscovery)
            /\ dcalls' = [dcalls EXCEPT ![i] =
                  [pc |-> "done",
                   res |-> IF archive.metadata_ok
                           THEN fallbackDiscovery(archive, fileDiscovery) ELSE NoDiscovery,
                   reads |-> 2]]
    /\ cache' = IF c.pc = "fallback" THEN MetadataCached(cache) ELSE cache
    /\ UNCHANGED <<archive, videos>>
    /\ UNCHANGED <<directoryHandle, calls, resolved, volatile, fs>>
    /\ UNCHANGED <<managerVars, viewVars>>

\* buildVideoData as initialize calls it, after discoverFiles returned a map
buildVideoData ==
    /\ fileDiscovery.success
    /\ videos' = [built |-> TRUE,
                  list |-> VideoList(fileDiscovery.discovery,
                                     IF archive.metadata_ok THEN archive.metadata ELSE <<>>,
                                     archive.keywords, archive.info)]
    /\ cache' = MetadataCached(KeywordsCached(cache))
    /\ UNCHANGED <<archive, fileDiscovery, dcalls>>
    /\ UNCHANGED <<directoryHandle, calls, resolved, volatile, fs>>
    /\ UNCHANGED <<managerVars, viewVars>>

\* let transcripts = {}
EmptyIndex == [k \in {} |-> ""]

NoIndexes == [transcripts |-> EmptyIndex, summaries |-> EmptyIndex, comments |-> EmptyIndex]

NoArchive ==
    [api |-> "down", listing |-> NoMaps, metadata_ok |-> FALSE, metadata |-> <<>>,
     indexes |-> NoIndexes, keywords |-> {}, info |-> NoInfo]

ArchiveIdle ==
    /\ archive = NoArchive
    /\ fileDiscovery = NoDiscovery
    /\ dcalls = <<>>
    /\ videos = NotBuilt

(***************************************************************************)
(* DataManager (src/unnamed/part_004) and the video grid of                *)
(* ArchiveExplorer (src/unnamed/part_000): the query over the video list   *)
(* that buildVideoData returned.  Texts are sequences of characters.       *)
(***************************************************************************)
LowerChar(ch) == CASE ch = "A" -> "a" [] ch = "B" -> "b" [] OTHER -> ch

\* String.prototype.toLowerCase
toLowerCase(s) == [k \in 1..Len(s) |-> LowerChar(s[k])]

\* String.prototype.includes
includes(s, t) == \E k \in 0..(Len(s) - Len(t)) : SubSeq(s, k + 1, k + Len(t)) = t

\* String.prototype.startsWith
startsWith(s, t) == Len(t) <= Len(s) /\ SubSeq(s, 1, Len(t)) = t

\* the order of two sequences of weights: -1, 0 or 1
RECURSIVE Lex(_, _)
Lex(s, t) ==
    IF s = <<>> THEN (IF t = <<>> THEN 0 ELSE 0 - 1)
    ELSE IF t = <<>> THEN 1
    ELSE IF s[1] < t[1] THEN 0 - 1
    ELSE IF s[1] > t[1] THEN 1
    ELSE Lex(Tail(s), Tail(t))

\* the collation weights of a character: its letter, then its case
LetterWeight(ch) == CASE LowerChar(ch) = "a" -> 1 [] LowerChar(ch) = "b" -> 2 [] OTHER -> 3

CaseWeight(ch) == IF LowerChar(ch) = ch THEN 0 ELSE 1

\* String.prototype.localeCompare: the letters decide, then the case
localeCompare(s, t) ==
    LET letters == Lex([k \in 1..Len(s) |-> LetterWeight(s[k])],
                       [k \in 1..Len(t) |-> LetterWeight(t[k])])
    IN  IF letters # 0 THEN letters
        ELSE Lex([k \in 1..Len(s) |-> CaseWeight(s[k])],
                 [k \in 1..Len(t) |-> CaseWeight(t[k])])

\* published_at of a record is a string: '' or the ISO form of a day;
\* days are counted from the epoch and are positive
NoDate == [iso |-> FALSE, day |-> 0]

IsoDate(d) == [iso |-> TRUE, day |-> d]

\* ToNumber(string): '' is 0 and an ISO date is not a numeric literal
ToNumber(s) == IF s.iso THEN NaN ELSE Number(0)

\* new Date(string), as a number: the day of an ISO date
DateOf(s) == IF s.iso THEN Number(s.day) ELSE NaN

\* x >= y and x <= y on numbers: false when either is NaN
GreaterEq(x, y) == ~x.nan /\ ~y.nan /\ x.v >= y.v

LessEq(x, y) == ~x.nan /\ ~y.nan /\ x.v <= y.v

\* a - b on two published_at strings
DateDifference(a, b) ==
    IF ToNumber(a).nan \/ ToNumber(b).nan THEN NaN
    ELSE Number(ToNumber(a).v - ToNumber(b).v)

SortOptions ==
    {"date-asc", "date-desc", "views-desc", "views-asc",
     "comments-desc", "comments-asc", "title-asc", "title-desc"}

\* the comparator getVideos hands to sort
Comparator(sortBy, a, b) ==
    CASE sortBy = "date-asc" -> DateDifference(a.published_at, b.published_at)
      [] sortBy = "date-desc" -> DateDifference(b.published_at, a.published_at)
      [] sortBy = "views-desc" -> Number(b.view_count - a.view_count)
      [] sortBy = "views-asc" -> Number(a.view_count - b.view_count)
      [] sortBy = "comments-desc" -> Number(b.comment_count - a.comment_count)
      [] sortBy = "comments-asc" -> Number(a.comment_count - b.comment_count)
      [] sortBy = "title-asc" -> Number(localeCompare(a.title, b.title))
      [] sortBy = "title-desc" -> Number(localeCompare(b.title, a.title))
      [] OTHER -> DateDifference(b.published_at, a.published_at)

\* Array.prototype.sort takes a comparator result of NaN as +0
SortCompare(sortBy, a, b) ==
    LET v == Comparator(sortBy, a, b) IN IF v.nan THEN 0 ELSE v.v

\* an unstable sort: x goes before the elements it compares equal to
BeforeOrEqual(sortBy, x, y) == SortCompare(sortBy, x, y) <= 0

\* x goes before y when the comparator is negative
Before(sortBy, x, y) == SortCompare(sortBy, x, y) < 0

\* x is placed in the sorted list behind every element it does not precede
RECURSIVE Insert(_, _, _)
Insert(sortBy, sorted, x) ==
    IF sorted = <<>> THEN <<x>>
    ELSE IF Before(sortBy, x, sorted[1]) THEN <<x>> \o sorted
    ELSE <<sorted[1]>> \o Insert(sortBy, Tail(sorted), x)

RECURSIVE SortInto(_, _, _)
SortInto(sortBy, list, sorted) ==
    IF list = <<>> THEN sorted
    ELSE SortInto(sortBy, Tail(list), Insert(sortBy, sorted, list[1]))

\* Array.prototype.sort, which is stable
sort(list, sortBy) == SortInto(sortBy, list, <<>>)

\* the filters of getVideos, each applied when its field of filters is truthy
Passes(video, filters) ==
    /\ filters.search # <<>> =>
          \/ includes(toLowerCase(video.title), toLowerCase(filters.search))
          \/ includes(toLowerCase(video.description), toLowerCase(filters.search))
    /\ filters.dateFrom # NoDate =>
          GreaterEq(ToNumber(video.published_at), DateOf(filters.dateFrom))
    /\ filters.dateTo # NoDate =>
          LessEq(ToNumber(video.published_at), DateOf(filters.dateTo))
    /\ ~Falsy(filters.minViews) =>
          GreaterEq(Number(video.view_count), parseInt(filters.minViews))
    /\ ~Falsy(filters.minComments) =>
          GreaterEq(Number(video.comment_count), parseInt(filters.minComments))

\* filters.sortBy || 'date-desc'
SortBy(filters) == IF filters.sortBy = "" THEN "date-desc" ELSE filters.sortBy

\* Array.prototype.slice(startIndex, endIndex)
slice(list, startIndex, endIndex) ==
    SubSeq(list, startIndex + 1, IF endIndex < Len(list) THEN endIndex ELSE Len(list))

\* Math.ceil(n / d) for n >= 0 and d > 0
Ceil(n, d) == (n + d - 1) \div d

\* the exclusive end of the page: startIndex + pagination.limit
EndIndex(pagination) == (pagination.page - 1) * pagination.limit + pagination.limit

\* hasNext with the comparison turned around at the boundary
HasNextInclusive(endIndex, length) == endIndex <= length

HasNext(endIndex, length) == endIndex < length

\* filteredVideos of getVideos, after the filters and the sort
FilteredVideos(list, filters) ==
    sort(SelectSeq(list, LAMBDA video : Passes(video, filters)), SortBy(filters))

getVideos(list, filters, pagination) ==
    LET filteredVideos == FilteredVideos(list, filters)
        startIndex == (pagination.page - 1) * pagination.limit
    IN  [videos |-> slice(filteredVideos, startIndex, EndIndex(pagination)),
         total |-> Len(filteredVideos),
         page |-> pagination.page,
         totalPages |-> Ceil(Len(filteredVideos), pagination.limit),
         hasNext |-> HasNext(EndIndex(pagination), Len(filteredVideos)),
         hasPrev |-> pagination.page > 1]

KeywordSyntax == <<"k", "e", "y", "w", "o", "r", "d", ":", "\"">>

\* getVideoKeywords: the keywords of the first record with the id
RECURSIVE getVideoKeywords(_, _)
getVideoKeywords(list, videoId) ==
    IF list = <<>> THEN <<>>
    ELSE IF list[1].video_id = videoId THEN list[1].keywords
    ELSE getVideoKeywords(Tail(list), videoId)

\* keywords.some(k => k.toLowerCase().includes(keyword.toLowerCase()))
HasKeyword(keywords, keyword) ==
    \E k \in 1..Len(keywords) : includes(toLowerCase(keywords[k]), toLowerCase(keyword))

\* the filters loadVideoGrid hands to getVideos: without the keyword, and
\* without the search text when it shows the keyword syntax
DataManagerFilters(filters) ==
    [filters EXCEPT !.keyword = <<>>,
                    !.search = IF startsWith(filters.search, KeywordSyntax)
                               THEN <<>> ELSE filters.search]

\* the result loadVideoGrid renders
LoadVideoGrid(list, filters, pagination) ==
    LET result == getVideos(list, DataManagerFilters(filters), pagination)
        finalVideos ==
            IF filters.keyword = <<>> THEN result.videos
            ELSE SelectSeq(result.videos,
                    LAMBDA video : HasKeyword(getVideoKeywords(list, video.video_id),
                                              filters.keyword))
    IN  [result EXCEPT !.videos = finalVideos, !.total = Len(finalVideos)]

NoFilters ==
    [search |-> <<>>, dateFrom |-> NoDate, dateTo |-> NoDate, minViews |-> Undefined,
     minComments |-> Undefined, sortBy |-> "", keyword |-> <<>>]

NoGrid ==
    [loaded |-> FALSE, filters |-> NoFilters, pagination |-> [page |-> 1, limit |-> 24],
     result |-> getVideos(<<>>, NoFilters, [page |-> 1, limit |-> 24]),
     finalResult |-> getVideos(<<>>, NoFilters, [page |-> 1, limit |-> 24])]

(***************************************************************************)
(* The comments of one video: the array loadComments caches under          *)
(* comments_<shortcode>, and the queries of DataManager over it.           *)
(***************************************************************************)
\* `${shortcode}_comment_${index}`
SyntheticId(shortcode, index) == shortcode \o "_comment_" \o ToString(index)

\* new Date(), the day the comments are resolved
Today == 9

\* one element of the array loadComments builds from the bundled file
NormaliseComment(shortcode, comment, index) ==
    [comment_id |-> IF comment.id # "" THEN comment.id ELSE SyntheticId(shortcode, index),
     video_id |-> shortcode,
     author |-> IF comment.author # <<>> THEN comment.author
                ELSE <<"U", "n", "k", "n", "o", "w", "n">>,
     text |-> comment.text,
     like_count |-> CountOf(comment.like_count),
     published_at |-> IF comment.published_at # 0 THEN comment.published_at ELSE Today,
     is_reply |-> comment.is_reply,
     parent_comment_id |-> comment.parent]

\* rawComments.map((comment, index) => ...)
NormaliseComments(shortcode, rawComments) ==
    [k \in 1..Len(rawComments) |-> NormaliseComment(shortcode, rawComments[k], k - 1)]

CommentSortOptions == {"likes-desc", "likes-asc", "date-desc", "date-asc"}

\* the comparator getComments and getAllComments hand to sort
CommentComparator(sortBy, a, b) ==
    CASE sortBy = "likes-desc" -> b.like_count - a.like_count
      [] sortBy = "likes-asc" -> a.like_count - b.like_count
      [] sortBy = "date-desc" -> b.published_at - a.published_at
      [] sortBy = "date-asc" -> a.published_at - b.published_at
      [] OTHER -> b.like_count - a.like_count

RECURSIVE InsertComment(_, _, _)
InsertComment(sortBy, sorted, x) ==
    IF sorted = <<>> THEN <<x>>
    ELSE IF CommentComparator(sortBy, x, sorted[1]) < 0 THEN <<x>> \o sorted
    ELSE <<sorted[1]>> \o InsertComment(sortBy, Tail(sorted), x)

RECURSIVE SortCommentsInto(_, _, _)
SortCommentsInto(sortBy, list, sorted) ==
    IF list = <<>> THEN sorted
    ELSE SortCommentsInto(sortBy, Tail(list), InsertComment(sortBy, sorted, list[1]))

\* videoComments.sort(...), which is stable
sortComments(list, sortBy) == SortCommentsInto(sortBy, list, <<>>)

\* filters.sortBy || 'likes-desc'
CommentSortBy(filters) == IF filters.sortBy = "" THEN "likes-desc" ELSE filters.sortBy

\* the filters of getComments and getAllComments
PassesComment(comment, filters) ==
    /\ filters.search # <<>> =>
          \/ includes(toLowerCase(comment.text), toLowerCase(filters.search))
          \/ includes(toLowerCase(comment.author), toLowerCase(filters.search))
    /\ filters.repliesOnly => comment.is_reply

\* filter returns a new array; without a filter videoComments is the array
\* loadCommentsForVideo returned
IsNewArray(filters) == filters.search # <<>> \/ filters.repliesOnly

\* videoComments after the filters and the sort
VideoComments(list, filters) ==
    sortComments(SelectSeq(list, LAMBDA comment : PassesComment(comment, filters)),
                 CommentSortBy(filters))

\* commentsWithReplies: the comments that are no replies, each with the
\* replies that name it as their parent
CommentsWithReplies(videoComments) ==
    LET topLevelComments == SelectSeq(videoComments, LAMBDA comment : ~comment.is_reply)
        replies == SelectSeq(videoComments, LAMBDA comment : comment.is_reply)
    IN  [k \in 1..Len(topLevelComments) |->
            [comment |-> topLevelComments[k],
             replies |-> SelectSeq(replies,
                            LAMBDA reply : reply.parent_comment_id =
                                           topLevelComments[k].comment_id)]]

\* loadComments: the cached array, or the array built from the file, which
\* is cached
Resolved(c) ==
    IF c.resolved THEN c
    ELSE [c EXCEPT !.resolved = TRUE,
                   !.first = NormaliseComments(c.shortcode, c.raw),
                   !.list = NormaliseComments(c.shortcode, c.raw)]

\* the array in the cache after a query: sort works in place on the array
\* the loader returned, unless a filter made a new array
AfterQuery(c, filters) ==
    [Resolved(c) EXCEPT
        !.list = IF IsNewArray(filters) THEN @ ELSE VideoComments(@, filters)]

NoCommentFilters == [search |-> <<>>, repliesOnly |-> FALSE, sortBy |-> ""]

NoComments ==
    [shortcode |-> "", raw |-> <<>>, resolved |-> FALSE, first |-> <<>>, list |-> <<>>]

\* the page of getComments by default: page 1 of 50
DefaultPage == [page |-> 1, limit |-> 50]

\* getAllComments returns the tree without the fields of a page
NoPage ==
    [total |-> 0, page |-> 0, totalPages |-> 0, hasNext |-> FALSE, hasPrev |-> FALSE]

NoTree ==
    [returned |-> FALSE, filters |-> NoCommentFilters, videoComments |-> <<>>,
     nodes |-> <<>>, paging |-> NoPage]

\* getAllComments(videoId, filters)
getAllComments(filters) ==
    /\ comments.shortcode # ""
    /\ comments' = AfterQuery(comments, filters)
    /\ tree' = [returned |-> TRUE, filters |-> filters,
                videoComments |-> VideoComments(Resolved(comments).list, filters),
                nodes |-> CommentsWithReplies(
                              VideoComments(Resolved(comments).list, filters)),
                paging |-> NoPage]
    /\ UNCHANGED <<dataManager, grid, exportService>>
    /\ UNCHANGED <<loaderVars, archiveVars, viewVars>>

\* getComments(videoId, filters), with the default page
getComments(filters) ==
    LET commentsWithReplies ==
            CommentsWithReplies(VideoComments(Resolved(comments).list, filters))
        startIndex == (DefaultPage.page - 1) * DefaultPage.limit
    IN  /\ comments.shortcode # ""
        /\ comments' = AfterQuery(comments, filters)
        /\ tree' = [returned |-> TRUE, filters |-> filters,
                    videoComments |-> VideoComments(Resolved(comments).list, filters),
                    nodes |-> slice(commentsWithReplies, startIndex, EndIndex(DefaultPage)),
                    paging |-> [total |-> Len(commentsWithReplies),
                                page |-> DefaultPage.page,
                                totalPages |-> Ceil(Len(commentsWithReplies),
                                                    DefaultPage.limit),
                                hasNext |-> HasNext(EndIndex(DefaultPage),
                                                    Len(commentsWithReplies)),
                                hasPrev |-> DefaultPage.page > 1]]
        /\ UNCHANGED <<dataManager, grid, exportService>>
        /\ UNCHANGED <<loaderVars, archiveVars, viewVars>>

\* generateCommentInsights: getAllComments(videoId, {}), then the analytics
\* over the flattened tree, which is a new array
generateCommentInsights ==
    /\ comments.shortcode # ""
    /\ comments' = AfterQuery(comments, NoCommentFilters)
    /\ UNCHANGED tree
    /\ UNCHANGED <<dataManager, grid, exportService>>
    /\ UNCHANGED <<loaderVars, archiveVars, viewVars>>

(***************************************************************************)
(* ExportService (src/js/config.js): the bulk export and its cancellation. *)
(* A run of exportAllVideos is followed from one await to the next; the    *)
(* code between two awaits runs without interruption.                      *)
(***************************************************************************)
\* a run of exportAllVideos: where it waits, its loop counters, the images of
\* the batch at hand; stopped: cancelExport was called while it ran; late:
\* what it began after that
NewRun ==
    [pc |-> "videos", videoIndex |-> 0, batchIndex |-> 0, i |-> 0, images |-> 0,
     stopped |-> FALSE, late |-> {}]

Running(run) == run.pc \notin {"done", "cancelled", "failed"}

\* the run begins a unit of work or a file
Begins(run, unit) == [run EXCEPT !.late = IF run.stopped THEN @ \cup {unit} ELSE @]

\* the comments of the video at hand
CommentCount(svc, run) == svc.videos[run.videoIndex + 1]

\* Math.ceil(comments.length / batchSize)
TotalBatches(svc, run) == Ceil(CommentCount(svc, run), svc.maxCommentsPerZip)

\* batchComments.length
BatchLength(svc, run) ==
    LET startIndex == run.batchIndex * svc.maxCommentsPerZip
        endIndex == IF startIndex + svc.maxCommentsPerZip < CommentCount(svc, run)
                    THEN startIndex + svc.maxCommentsPerZip ELSE CommentCount(svc, run)
    IN  endIndex - startIndex

RECURSIVE BatchLoop(_, _)
RECURSIVE CommentLoop(_, _)

\* the head of the loop over the batches of generateFflateZIPs: the return
\* and the throw both lead to the delay between two videos
BatchLoop(svc, run) ==
    IF run.batchIndex >= TotalBatches(svc, run) THEN [run EXCEPT !.pc = "videoDelay"]
    ELSE IF svc.cancelled THEN [run EXCEPT !.pc = "videoDelay"]
    ELSE CommentLoop(svc, [run EXCEPT !.i = 0, !.images = 0])

\* the end of a batch: the delay before the next one, or the head of the loop
BatchEnd(svc, run) ==
    IF run.batchIndex < TotalBatches(svc, run) - 1 THEN [run EXCEPT !.pc = "batchDelay"]
    ELSE BatchLoop(svc, [run EXCEPT !.batchIndex = @ + 1])

\* the ZIP of a batch is made whenever the batch has an image
CreateZip(svc, run) ==
    IF run.images > 0 THEN [Begins(run, "zip") EXCEPT !.pc = "zip"]
    ELSE BatchEnd(svc, run)

\* the head of the loop over the comments of a batch; the throw is caught
\* at the end of the batch, and the next batch follows without delay
CommentLoop(svc, run) ==
    IF run.i >= BatchLength(svc, run) THEN CreateZip(svc, run)
    ELSE IF svc.cancelled THEN BatchLoop(svc, [run EXCEPT !.batchIndex = @ + 1])
    ELSE [Begins(run, "comment") EXCEPT !.pc = "image"]

\* the head of the loop over the videos of exportAllVideos
VideoLoop(svc, run) ==
    IF run.videoIndex >= Len(svc.videos) THEN [run EXCEPT !.pc = "done"]
    ELSE IF svc.cancelled THEN [run EXCEPT !.pc = "cancelled"]
    ELSE [Begins(run, "video") EXCEPT !.pc = "comments"]

\* the run goes on after its await: o is the outcome of what it waited for
Resume(svc, run, o) ==
    CASE run.pc = "videos" ->
            IF Len(svc.videos) = 0 THEN [run EXCEPT !.pc = "failed"]
            ELSE VideoLoop(svc, [run EXCEPT !.videoIndex = 0])
      [] run.pc = "comments" ->
            IF CommentCount(svc, run) = 0
            THEN VideoLoop(svc, [run EXCEPT !.videoIndex = @ + 1])
            ELSE BatchLoop(svc, [run EXCEPT !.batchIndex = 0])
      [] run.pc = "image" ->
            CommentLoop(svc, [run EXCEPT !.i = @ + 1,
                                         !.images = IF o = "ok" THEN @ + 1 ELSE @])
      [] run.pc = "zip" ->
            IF o = "ok" THEN BatchEnd(svc, run)
            ELSE BatchLoop(svc, [run EXCEPT !.batchIndex = @ + 1])
      [] run.pc = "batchDelay" -> BatchLoop(svc, [run EXCEPT !.batchIndex = @ + 1])
      [] OTHER -> VideoLoop(svc, [run EXCEPT !.videoIndex = @ + 1])

\* what a run may wait for can fail: the image of a comment, the ZIP
AwaitOutcomes(run) == IF run.pc \in {"image", "zip"} THEN {"ok", "failed"} ELSE {"ok"}

NoExport ==
    [isExporting |-> FALSE, cancelled |-> FALSE, maxCommentsPerZip |-> 500,
     videos |-> <<>>, runs |-> <<>>]

\* exportAllVideos up to its first await
exportAllVideos ==
    /\ ~exportService.isExporting
    /\ Len(exportService.runs) < MaxExports
    /\ exportService' = [exportService EXCEPT !.isExporting = TRUE, !.cancelled = FALSE,
                                              !.runs = Append(@, NewRun)]
    /\ UNCHANGED <<dataManager, grid, comments, tree>>
    /\ UNCHANGED <<loaderVars, archiveVars, viewVars>>

\* a run of exportAllVideos from one await to the next, or to its end,
\* where the finally block resets the two flags
ExportStep(k) ==
    /\ Running(exportService.runs[k])
    /\ \E o \in AwaitOutcomes(exportService.runs[k]) :
          LET next == Resume(exportService, exportService.runs[k], o) IN
          exportService' =
              [exportService EXCEPT
                  !.runs[k] = next,
                  !.isExporting = IF Running(next) THEN @ ELSE FALSE,
                  !.cancelled = IF Running(next) THEN @ ELSE FALSE]
    /\ UNCHANGED <<dataManager, grid, comments, tree>>
    /\ UNCHANGED <<loaderVars, archiveVars, viewVars>>

\* cancelExport, which handleExportProgressClose calls while an export is
\* in progress
cancelExport ==
    /\ exportService.isExporting
    /\ exportService' =
          [exportService EXCEPT
              !.cancelled = TRUE,
              !.isExporting = FALSE,
              !.runs = [k \in 1..Len(@) |->
                           IF Running(@[k]) THEN [@[k] EXCEPT !.stopped = TRUE] ELSE @[k]]]
    /\ UNCHANGED <<dataManager, grid, comments, tree>>
    /\ UNCHANGED <<loaderVars, archiveVars, viewVars>>

\* the page lengths of the sessions (the grid shows 24 videos to a page)
PageSizes == {1, 2}

(***************************************************************************)
(* ArchiveExplorer.startApp (src/unnamed/part_000), followed from one      *)
(* await to the next through DataManager.initialize and                    *)
(* ArchiveLoader.initialize.  app.site is what each source of the          *)
(* session answers:                                                        *)
(*   api       neterr | notok | badjson | nosuccess | up                   *)
(*   root      bgca_yt_metadata.json of the directory: missing | badjson   *)
(*             | has                                                       *)
(*   explorer  bgca_yt_explorer_data/videos.json: nodir | missing |        *)
(*             badjson | has                                               *)
(*   bundled   ./data/videos.json: neterr | notok | badjson | has          *)
(*   flat      the bulk index files: ok | null (a file holding null)       *)
(***************************************************************************)
NoSite ==
    [api |-> "neterr", root |-> "missing", explorer |-> "nodir", bundled |-> "neterr",
     flat |-> "ok"]

NoApp ==
    [pc |-> "idle", phase |-> "", site |-> NoSite, listeners |-> FALSE,
     loadingScreen |-> FALSE, shown |-> FALSE, rejected |-> FALSE, alerts |-> <<>>]

MetadataKey == CacheKey("metadata", "")

\* where loadVideoMetadata goes first
MetadataStart(c, handle) ==
    IF MetadataKey \in DOMAIN c THEN "cached"
    ELSE IF handle # NoHandle THEN "root" ELSE "bundled"

\* initialize after discoverFiles: if (!discovery) throw
InitializeUnchecked(discovery) == "continue"

InitializeOutcome(discovery) == IF ~discovery.success THEN "throw" ELSE "continue"

\* the message of showError in the catch block of startApp
LoadFailure == "Failed to load the archive. Please refresh the page."

\* the catch block of startApp
Failed(a) ==
    [a EXCEPT !.pc = "failed", !.rejected = TRUE, !.loadingScreen = FALSE,
              !.shown = TRUE,
              !.alerts = Append(@, LoadFailure)]

\* the grid after loadVideoGrid
GridLoaded(g, list, pagination) ==
    [g EXCEPT !.loaded = TRUE, !.pagination = pagination,
              !.result = getVideos(list, DataManagerFilters(g.filters), pagination),
              !.finalResult = LoadVideoGrid(list, g.filters, pagination)]

\* buildVideoData with the metadata loadVideoMetadata returned (null: none)
BuiltVideos(discovery, hasMetadata) ==
    IF ~discovery.success THEN <<>>
    ELSE VideoList(discovery.discovery, IF hasMetadata THEN archive.metadata ELSE <<>>,
                   archive.keywords, archive.info)

\* startApp up to the request to the discovery API
startApp ==
    /\ app.pc = "idle"
    /\ app' = [app EXCEPT !.loadingScreen = TRUE, !.listeners = TRUE,
                          !.pc = IF fileDiscovery.success THEN "keywords" ELSE "api"]
    /\ UNCHANGED <<detail, extractor, analysis>>
    /\ UNCHANGED <<loaderVars, archiveVars, managerVars>>

\* loadVideoMetadata returned inside fallbackDiscovery (phase fallback) or
\* inside buildVideoData (phase build)
AfterMetadata(a, hasMetadata) ==
    IF a.phase = "fallback"
    THEN IF hasMetadata THEN [a EXCEPT !.pc = "indexes"]
         ELSE IF InitializeOutcome(NoDiscovery) = "throw" THEN Failed(a)
         ELSE [a EXCEPT !.pc = "keywords"]
    ELSE [a EXCEPT !.pc = "build"]

\* the answer of the discovery API
ApiStep ==
    /\ app.pc = "api"
    /\ IF app.site.api = "up"
       THEN /\ fileDiscovery' = ApiDiscovery(archive)
            /\ app' = [app EXCEPT !.pc = "keywords"]
       ELSE /\ UNCHANGED fileDiscovery
            /\ app' = LET a == [app EXCEPT !.phase = "fallback"]
                          first == MetadataStart(cache, directoryHandle)
                      IN  IF first = "cached" THEN AfterMetadata(a, TRUE)
                          ELSE [a EXCEPT !.pc = first]
    /\ UNCHANGED <<detail, extractor, analysis>>
    /\ UNCHANGED <<loaderVars, archive, dcalls, videos, managerVars>>

\* one source of loadVideoMetadata has answered
MetadataStep ==
    /\ app.pc \in {"root", "explorer", "bundled"}
    /\ LET o == app.site[app.pc] IN
       IF o = "has"
       THEN /\ cache' = CacheSet(cache, MetadataKey,
                                 PayloadAt("metadata", "", Bundled, "has", 0))
            /\ app' = AfterMetadata(app, TRUE)
       ELSE /\ UNCHANGED cache
            /\ app' = CASE app.pc = "root" -> [app EXCEPT !.pc = "explorer"]
                        [] app.pc = "explorer" -> [app EXCEPT !.pc = "bundled"]
                        [] OTHER -> AfterMetadata(app, FALSE)
    /\ UNCHANGED <<detail, extractor, analysis>>
    /\ UNCHANGED <<directoryHandle, calls, resolved, volatile, fs>>
    /\ UNCHANGED <<archiveVars, managerVars>>

\* fallbackDiscovery has read the bulk index files
IndexesStep ==
    /\ app.pc = "indexes"
    /\ IF app.site.flat = "null"
       THEN /\ UNCHANGED fileDiscovery
            /\ app' = IF InitializeOutcome(NoDiscovery) = "throw" THEN Failed(app)
                      ELSE [app EXCEPT !.pc = "keywords"]
       ELSE /\ fileDiscovery' = [success |-> TRUE, discovery |-> FallbackMaps(archive)]
            /\ app' = [app EXCEPT !.pc = "keywords"]
    /\ UNCHANGED <<detail, extractor, analysis>>
    /\ UNCHANGED <<loaderVars, archive, dcalls, videos, managerVars>>

\* loadKeywords has returned; buildVideoData begins and asks for the metadata
KeywordsStep ==
    /\ app.pc = "keywords"
    /\ cache' = KeywordsCached(cache)
    /\ app' = LET a == [app EXCEPT !.phase = "build"]
                  first == MetadataStart(cache, directoryHandle)
              IN  [a EXCEPT !.pc = IF first = "cached" THEN "build" ELSE first]
    /\ UNCHANGED <<detail, extractor, analysis>>
    /\ UNCHANGED <<directoryHandle, calls, resolved, volatile, fs>>
    /\ UNCHANGED <<archiveVars, managerVars>>

\* buildVideoData returns, initialize resolves and DataManager.initialize
\* takes the list over
BuildStep ==
    /\ app.pc = "build"
    /\ videos' = [built |-> TRUE,
                  list |-> BuiltVideos(fileDiscovery, MetadataKey \in DOMAIN cache)]
    /\ dataManager' = [dataManager EXCEPT !.videos = videos'.list]
    /\ app' = [app EXCEPT !.pc = "grid"]
    /\ UNCHANGED <<detail, extractor, analysis>>
    /\ UNCHANGED <<loaderVars, archive, fileDiscovery, dcalls>>
    /\ UNCHANGED <<grid, comments, tree, exportService>>

\* after the pause: loadVideoGrid, hideLoadingScreen
GridStep ==
    /\ app.pc = "grid"
    /\ \E limit \in PageSizes :
          grid' = GridLoaded(grid, dataManager.videos, [page |-> 1, limit |-> limit])
    /\ app' = [app EXCEPT !.pc = "shown", !.loadingScreen = FALSE, !.shown = TRUE]
    /\ UNCHANGED <<detail, extractor, analysis>>
    /\ UNCHANGED <<loaderVars, archiveVars>>
    /\ UNCHANGED <<dataManager, comments, tree, exportService>>

\* handleSearch, once setupEventListeners has run
handleSearch ==
    /\ app.listeners
    /\ \E limit \in PageSizes :
          grid' = GridLoaded(grid, dataManager.videos, [page |-> 1, limit |-> limit])
    /\ UNCHANGED viewVars
    /\ UNCHANGED <<loaderVars, archiveVars>>
    /\ UNCHANGED <<dataManager, comments, tree, exportService>>

(***************************************************************************)
(* The video-detail view of ArchiveExplorer (src/unnamed/part_000).  A     *)
(* call of showVideoDetail is followed from one await to the next; the     *)
(* loads of the transcript and of the summary are started without being    *)
(* awaited and complete on their own.  detail.library says which videos    *)
(* have a transcript, a summary and comments in some source of their       *)
(* chains; a panel holds the video whose content it shows.  detail.runs    *)
(* are the calls that have not returned or have a load pending, and        *)
(* detail.opened the videos opened in the session, by detail.calls calls.  *)
(***************************************************************************)
NoPanel == [video |-> "", state |-> ""]

NoPanels ==
    [transcript |-> NoPanel, summary |-> NoPanel, keywords |-> NoPanel,
     comments |-> NoPanel, insights |-> NoPanel]

NoLibrary == [transcript |-> {}, summary |-> {}, comments |-> {}]

\* this.currentVideo = null, this.currentView = 'videos'
NoDetail ==
    [currentVideo |-> "", currentView |-> "videos", panels |-> NoPanels,
     runs |-> <<>>, opened |-> {}, calls |-> 0, alerts |-> <<>>, library |-> NoLibrary]

\* DataManager.getVideo: the record of the list with this id, if any
getVideo(list, videoId) == {list[i] : i \in {j \in 1..Len(list) : list[j].video_id = videoId}}

\* a variant that leaves the panel as it was when the loader returns null
AvailableOrKept(library, t, videoId) ==
    IF videoId \in library[t] THEN "text" ELSE ""

\* what loadTranscript and loadSummary write when the loader has answered:
\* the text, or the notice that there is none
Available(library, t, videoId) ==
    IF videoId \in library[t] THEN "text" ELSE "not available"

\* loadKeywords: the keywords of the video record, which it has already
KeywordTags(video) == IF Len(video.keywords) > 0 THEN "tags" ELSE "not available"

\* renderComments: the cards of the comments, none when the chain returned []
CommentCards(library, videoId) == IF videoId \in library.comments THEN "cards" ELSE "none"

\* generateCommentInsights: hidden when there is no comment
Insights(library, videoId) == IF videoId \in library.comments THEN "shown" ELSE "hidden"

NewDetailRun(videoId) ==
    [video |-> videoId, pc |-> "player", pending |-> {}, commentsFor |-> ""]

\* a call that has returned and has no load pending is gone
Retire(d) ==
    [d EXCEPT !.runs = SelectSeq(@, LAMBDA run : run.pc # "done" \/ run.pending # {})]

\* showVideoDetail up to await this.videoPlayer.loadVideo
showVideoDetail(videoId) ==
    /\ detail.calls < MaxOpens
    /\ IF getVideo(dataManager.videos, videoId) = {}
       THEN detail' = [detail EXCEPT !.alerts = Append(@, "Video not found"),
                                     !.calls = @ + 1]
       ELSE detail' = [detail EXCEPT !.currentVideo = videoId,
                                     !.currentView = "video-detail",
                                     !.opened = @ \cup {videoId},
                                     !.calls = @ + 1,
                                     !.runs = Append(@, NewDetailRun(videoId))]
    /\ UNCHANGED <<app, extractor, analysis>>
    /\ UNCHANGED <<loaderVars, archiveVars, managerVars>>

\* loadComments and generateCommentInsights begin with
\* if (!this.currentVideo) return
AfterPlayer(d, run) ==
    IF d.currentVideo = "" THEN [run EXCEPT !.pc = "done"]
    ELSE [run EXCEPT !.pc = "comments", !.commentsFor = d.currentVideo]

AfterComments(d, run) ==
    IF d.currentVideo = "" THEN [run EXCEPT !.pc = "done", !.commentsFor = ""]
    ELSE [run EXCEPT !.pc = "insights", !.commentsFor = d.currentVideo]

\* the call goes on after an await
\*   player    the player is loaded: updateVideoInfo starts the loads of the
\*             transcript and the summary, writes the keywords, and
\*             loadComments asks for the comments of the current video
\*   comments  the comments arrive and are rendered; generateCommentInsights
\*             asks for the comments of the current video
\*   insights  the comments arrive and the insights are shown or hidden
DetailStep(k) ==
    LET run == detail.runs[k]
        video == CHOOSE v \in getVideo(dataManager.videos, run.video) : TRUE
    IN
    /\ run.pc \in {"player", "comments", "insights"}
    /\ detail' = Retire(
          CASE run.pc = "player" ->
                 [detail EXCEPT
                    !.panels.keywords = [video |-> run.video, state |-> KeywordTags(video)],
                    !.runs[k] = [AfterPlayer(detail, run) EXCEPT
                                    !.pending = {"transcript", "summary"}]]
            [] run.pc = "comments" ->
                 [detail EXCEPT
                    !.panels.comments = [video |-> run.commentsFor,
                                         state |-> CommentCards(detail.library,
                                                                run.commentsFor)],
                    !.runs[k] = AfterComments(detail, run)]
            [] OTHER ->
                 [detail EXCEPT
                    !.panels.insights = [video |-> run.commentsFor,
                                         state |-> Insights(detail.library,
                                                            run.commentsFor)],
                    !.runs[k] = [run EXCEPT !.pc = "done", !.commentsFor = ""]])
    /\ UNCHANGED <<app, extractor, analysis>>
    /\ UNCHANGED <<loaderVars, archiveVars, managerVars>>

\* the loader answers loadTranscript or loadSummary of a call: the panel is
\* written
ContentLoaded(k, t) ==
    LET run == detail.runs[k] IN
    /\ t \in run.pending
    /\ detail' = Retire([detail EXCEPT
          !.panels[t] = [video |-> run.video,
                         state |-> Available(detail.library, t, run.video)],
          !.runs[k].pending = @ \ {t}])
    /\ UNCHANGED <<app, extractor, analysis>>
    /\ UNCHANGED <<loaderVars, archiveVars, managerVars>>

\* the user goes back to the grid
showVideoGrid ==
    /\ detail.currentView = "video-detail"
    /\ detail' = [detail EXCEPT !.currentVideo = "", !.currentView = "videos"]
    /\ UNCHANGED <<app, extractor, analysis>>
    /\ UNCHANGED <<loaderVars, archiveVars, managerVars>>

(***************************************************************************)
(* ArchiveLoader.extractShortcode (src/js/archive-loader.js); the PHP      *)
(* function of the same name (src/unnamed/part_005) has the same patterns. *)
(* A filename is a sequence of characters.                                 *)
(***************************************************************************)
\* return null
NoId == <<>>

Chars(word) ==
    CASE word = "_en_auto_ytdlp" ->
           <<"_", "e", "n", "_", "a", "u", "t", "o", "_", "y", "t", "d", "l", "p">>
      [] word = "_summary" -> <<"_", "s", "u", "m", "m", "a", "r", "y">>
      [] word = "_comments" -> <<"_", "c", "o", "m", "m", "e", "n", "t", "s">>
      [] word = "_youtube" -> <<"_", "y", "o", "u", "t", "u", "b", "e">>
      [] word = ".mp4" -> <<".", "m", "p", "4">>
      [] word = "_" -> <<"_">>
      [] OTHER -> <<>>

\* the patterns in their order: a leading text, the group, a trailing text
ExtractPatterns ==
    << [lead |-> Chars("_"), trail |-> Chars("_en_auto_ytdlp")],
       [lead |-> Chars("_"), trail |-> Chars("_summary")],
       [lead |-> Chars("_"), trail |-> Chars("_comments")],
       [lead |-> Chars("_"), trail |-> Chars("_youtube")],
       [lead |-> Chars("_"), trail |-> Chars(".mp4")],
       [lead |-> <<>>, trail |-> <<>>] >>

\* the text occurs in the filename at position i
OccursAt(filename, text, i) ==
    /\ i + Len(text) - 1 <= Len(filename)
    /\ \A k \in 1..Len(text) : filename[i + k - 1] = text[k]

\* the pattern matches with its first character at position i
MatchesAt(filename, pattern, i) ==
    /\ OccursAt(filename, pattern.lead, i)
    /\ i + Len(pattern.lead) + IdLength - 1 <= Len(filename)
    /\ \A k \in 0..(IdLength - 1) : filename[i + Len(pattern.lead) + k] \in IdAlphabet
    /\ OccursAt(filename, pattern.trail, i + Len(pattern.lead) + IdLength)

\* the positions at which filename.match(pattern) can match; the match is
\* the leftmost of them
MatchPositions(filename, pattern) ==
    {i \in 1..Len(filename) : MatchesAt(filename, pattern, i)}

Leftmost(positions) == CHOOSE i \in positions : \A j \in positions : i <= j

\* a variant that takes the characters from the start of the match
GroupFromMatchStart(filename, pattern, i) == SubSeq(filename, i, i + IdLength - 1)

\* match[1]: the characters of the group
Group(filename, pattern, i) ==
    SubSeq(filename, i + Len(pattern.lead), i + Len(pattern.lead) + IdLength - 1)

\* the loop over the patterns, from pattern n on
RECURSIVE ExtractFrom(_, _)
ExtractFrom(filename, n) ==
    IF n > Len(ExtractPatterns) THEN NoId
    ELSE LET positions == MatchPositions(filename, ExtractPatterns[n]) IN
         IF positions # {}
         THEN Group(filename, ExtractPatterns[n], Leftmost(positions))
         ELSE ExtractFrom(filename, n + 1)

extractShortcode(filename) == ExtractFrom(filename, 1)

NoExtractor == [filename |-> <<>>, pc |-> "idle", id |-> NoId, minimal |-> <<>>, again |-> NoId]

\* the filenames that hold an id and nothing that is not needed for one of
\* the patterns to match: the id alone, and the id between the leading and
\* the trailing text of a pattern
MinimalNames(id) ==
    {ExtractPatterns[n].lead \o id \o ExtractPatterns[n].trail :
        n \in 1..Len(ExtractPatterns)}

\* extractShortcode is applied to the filename of the session
Extract ==
    /\ extractor.pc = "idle"
    /\ extractor' = [extractor EXCEPT !.pc = "extracted",
                                      !.id = extractShortcode(extractor.filename)]
    /\ UNCHANGED <<app, detail, analysis>>
    /\ UNCHANGED <<loaderVars, archiveVars, managerVars>>

\* extractShortcode is applied to a minimal filename made of the id it returned
ExtractAgain ==
    /\ extractor.pc = "extracted"
    /\ extractor.id # NoId
    /\ \E minimal \in MinimalNames(extractor.id) :
          extractor' = [extractor EXCEPT !.pc = "again", !.minimal = minimal,
                                         !.again = extractShortcode(minimal)]
    /\ UNCHANGED <<app, detail, analysis>>
    /\ UNCHANGED <<loaderVars, archiveVars, managerVars>>

(***************************************************************************)
(* The comment analytics of the detail view (src/unnamed/part_000): the    *)
(* words of the most-liked comments and the themes. A text is the sequence *)
(* of its characters.                                                      *)
(***************************************************************************)
\* the characters \w of a regular expression
WordCharacters ==
    {"a", "b", "c", "d", "e", "f", "g", "h", "i", "j", "k", "l", "m",
     "n", "o", "p", "q", "r", "s", "t", "u", "v", "w", "x", "y", "z",
     "A", "B",
     "0", "1", "2", "3", "4", "5", "6", "7", "8", "9",
     "_"}

\* the characters \s of the texts
WhiteSpace == {" "}

\* .replace(/[^\w\s]/g, '')
RemovePunctuation(s) == SelectSeq(s, LAMBDA ch : ch \in WordCharacters \cup WhiteSpace)

\* .split(/\s+/), without the empty strings it leaves at the two ends of a
\* text that begins or ends with white space: the filter on the length of
\* the words drops them in any case
RECURSIVE SplitWords(_, _)
SplitWords(s, word) ==
    IF s = <<>> THEN (IF word = <<>> THEN <<>> ELSE <<word>>)
    ELSE IF s[1] \in WhiteSpace
         THEN (IF word = <<>> THEN <<>> ELSE <<word>>) \o SplitWords(Tail(s), <<>>)
         ELSE SplitWords(Tail(s), Append(word, s[1]))

\* the words of a comment that analyzeLikedCommentWords scores
LikedWordsOf(comment) ==
    SelectSeq(SplitWords(RemovePunctuation(toLowerCase(comment.text)), <<>>),
              LAMBDA word : Len(word) > 3)

\* wordLikeScores after one more occurrence of a word; the entries are in
\* the order in which the words were first met
AddWord(scores, word, like_count) ==
    IF \E k \in 1..Len(scores) : scores[k].word = word
    THEN [k \in 1..Len(scores) |->
             IF scores[k].word = word
             THEN [scores[k] EXCEPT !.totalLikes = @ + like_count, !.count = @ + 1]
             ELSE scores[k]]
    ELSE Append(scores, [word |-> word, totalLikes |-> like_count, count |-> 1])

\* words.forEach(word => ...)
RECURSIVE AddWords(_, _, _)
AddWords(scores, words, like_count) ==
    IF words = <<>> THEN scores
    ELSE AddWords(AddWord(scores, words[1], like_count), Tail(words), like_count)

\* topComments.forEach(comment => ...)
RECURSIVE WordLikeScores(_, _)
WordLikeScores(topComments, scores) ==
    IF topComments = <<>> THEN scores
    ELSE WordLikeScores(Tail(topComments),
                        AddWords(scores, LikedWordsOf(topComments[1]),
                                 topComments[1].like_count))

\* Math.round(n / d) for n >= 0 and d > 0: a half is rounded up
Round(n, d) == (2 * n + d) \div (2 * d)

RECURSIVE InsertRanked(_, _)
InsertRanked(sorted, x) ==
    IF sorted = <<>> THEN <<x>>
    ELSE IF sorted[1].rank < x.rank THEN <<x>> \o sorted
    ELSE <<sorted[1]>> \o InsertRanked(Tail(sorted), x)

RECURSIVE SortRanked(_, _)
SortRanked(list, sorted) ==
    IF list = <<>> THEN sorted
    ELSE SortRanked(Tail(list), InsertRanked(sorted, list[1]))

\* list.sort((a, b) => Rank(b) - Rank(a)), which is stable
SortDescending(list, Score(_)) ==
    LET sorted == SortRanked([k \in 1..Len(list) |->
                                 [rank |-> Score(list[k]), item |-> list[k]]], <<>>)
    IN  [k \in 1..Len(list) |-> sorted[k].item]

\* the number of words analyzeLikedCommentWords returns at most
MaxLikedWords == 15

\* topComments: Math.max(1, Math.floor(sortedByLikes.length * 0.2)) comments
\* from the head of the comments sorted by their likes
TopComments(list) ==
    LET sortedByLikes == sortComments(list, "likes-desc")
        topPercentage == IF Len(sortedByLikes) \div 5 > 1
                         THEN Len(sortedByLikes) \div 5 ELSE 1
    IN  slice(sortedByLikes, 0, topPercentage)

\* what analyzeLikedCommentWords returns
LikedWords(list) ==
    LET scores == WordLikeScores(TopComments(list), <<>>)
        items == [k \in 1..Len(scores) |->
                     [word |-> scores[k].word,
                      avgLikes |-> Round(scores[k].totalLikes, scores[k].count),
                      count |-> scores[k].count]]
    IN  slice(SortDescending(SelectSeq(items, LAMBDA item : item.count >= 2),
                             LAMBDA item : item.avgLikes),
              0, MaxLikedWords)

\* the themes of analyzeThemes and their keywords
Themes ==
    <<
       [theme |-> "Recipe Requests",
        keywords |->
          <<
            <<"r", "e", "c", "i", "p", "e">>,
            <<"h", "o", "w", " ", "t", "o", " ", "m", "a", "k", "e">>,
            <<"i", "n", "g", "r", "e", "d", "i", "e", "n", "t", "s">>,
            <<"l", "i", "n", "k">>,
            <<"c", "o", "o", "k">>
          >>],
       [theme |-> "Health Questions",
        keywords |->
          <<
            <<"h", "o", "w", " ", "l", "o", "n", "g">>,
            <<"d", "o", "s", "a", "g", "e">>,
            <<"h", "o", "w", " ", "m", "u", "c", "h">>,
            <<"s", "a", "f", "e">>,
            <<"p", "r", "e", "g", "n", "a", "n", "c", "y">>,
            <<"s", "h", "o", "u", "l", "d", " ", "i">>,
            <<"c", "a", "n", " ", "i">>
          >>],
       [theme |-> "Success Stories",
        keywords |->
          <<
            <<"h", "e", "l", "p", "e", "d">>,
            <<"b", "e", "t", "t", "e", "r">>,
            <<"i", "m", "p", "r", "o", "v", "e", "d">>,
            <<"h", "e", "a", "l", "e", "d">>,
            <<"w", "o", "r", "k", "i", "n", "g">>,
            <<"r", "e", "s", "u", "l", "t", "s">>,
            <<"c", "u", "r", "e", "d">>,
            <<"f", "e", "e", "l", "i", "n", "g", " ", "g", "r", "e", "a", "t">>,
            <<"a", "m", "a", "z", "i", "n", "g", " ", "r", "e", "s", "u", "l", "t", "s">>
          >>],
       [theme |-> "Protocol Questions",
        keywords |->
          <<
            <<"c", "e", "l", "e", "r", "y", " ", "j", "u", "i", "c", "e">>,
            <<"h", "e", "a", "v", "y", " ", "m", "e", "t", "a", "l">>,
            <<"d", "e", "t", "o", "x">>,
            <<"p", "r", "o", "t", "o", "c", "o", "l">>,
            <<"s", "u", "p", "p", "l", "e", "m", "e", "n", "t", "s">>,
            <<"m", "o", "r", "n", "i", "n", "g", " ", "r", "o", "u", "t", "i", "n", "e">>
          >>],
       [theme |-> "Gratitude",
        keywords |->
          <<
            <<"t", "h", "a", "n", "k", " ", "y", "o", "u">>,
            <<"g", "r", "a", "t", "e", "f", "u", "l">>,
            <<"b", "l", "e", "s", "s">>,
            <<"s", "a", "v", "e", "d", " ", "m", "y", " ", "l", "i", "f", "e">>,
            <<"a", "p", "p", "r", "e", "c", "i", "a", "t", "e">>,
            <<"t", "h", "a", "n", "k", "f", "u", "l">>,
            <<"b", "l", "e", "s", "s", "e", "d">>,
            <<"g", "o", "d", " ", "b", "l", "e", "s", "s">>,
            <<"l", "i", "f", "e", " ", "s", "a", "v", "e", "r">>,
            <<"a", "m", "a", "z", "i", "n", "g">>,
            <<"l", "o", "v", "e", " ", "y", "o", "u">>,
            <<"i", "n", "c", "r", "e", "d", "i", "b", "l", "e">>
          >>],
       [theme |-> "Symptoms",
        keywords |->
          <<
            <<"p", "a", "i", "n">>,
            <<"f", "a", "t", "i", "g", "u", "e">>,
            <<"b", "r", "a", "i", "n", " ", "f", "o", "g">>,
            <<"a", "n", "x", "i", "e", "t", "y">>,
            <<"d", "e", "p", "r", "e", "s", "s", "i", "o", "n">>,
            <<"s", "y", "m", "p", "t", "o", "m", "s">>,
            <<"s", "i", "c", "k">>,
            <<"t", "i", "r", "e", "d">>
          >>],
       [theme |-> "Food & Nutrition",
        keywords |->
          <<
            <<"f", "o", "o", "d">>,
            <<"e", "a", "t">>,
            <<"d", "i", "e", "t">>,
            <<"n", "u", "t", "r", "i", "t", "i", "o", "n">>,
            <<"m", "e", "a", "l">>,
            <<"f", "r", "u", "i", "t">>,
            <<"v", "e", "g", "e", "t", "a", "b", "l", "e">>,
            <<"o", "r", "g", "a", "n", "i", "c">>
          >>],
       [theme |-> "Healing Journey",
        keywords |->
          <<
            <<"j", "o", "u", "r", "n", "e", "y">>,
            <<"h", "e", "a", "l", "i", "n", "g">>,
            <<"r", "e", "c", "o", "v", "e", "r", "y">>,
            <<"p", "r", "o", "g", "r", "e", "s", "s">>,
            <<"h", "o", "p", "e">>,
            <<"f", "a", "i", "t", "h">>,
            <<"b", "e", "l", "i", "e", "v", "e">>
          >>]
    >>

\* the number of themes analyzeThemes returns at most
MaxThemes == 8

\* keywords.some(keyword => text.includes(keyword))
hasKeyword(text, theme) ==
    \E k \in 1..Len(theme.keywords) : includes(text, theme.keywords[k])

\* a variant that counts every keyword of the theme the text contains
ThemeHitsPerKeyword(text, theme) ==
    Cardinality({k \in 1..Len(theme.keywords) : includes(text, theme.keywords[k])})

\* what a comment adds to the count of a theme
ThemeHits(text, theme) == IF hasKeyword(text, theme) THEN 1 ELSE 0

\* comments.forEach(comment => ...): the counts of the themes, in the order
\* of the themes; a comment of the loader has its text in comment.text
RECURSIVE ThemeCounts(_, _)
ThemeCounts(list, counts) ==
    IF list = <<>> THEN counts
    ELSE ThemeCounts(Tail(list),
                     [t \in 1..Len(Themes) |->
                         counts[t] + ThemeHits(toLowerCase(list[1].text), Themes[t])])

\* what analyzeThemes returns
ThemesData(list) ==
    LET counts == ThemeCounts(list, [t \in 1..Len(Themes) |-> 0])
        items == [t \in 1..Len(Themes) |->
                     [theme |-> Themes[t].theme, count |-> counts[t]]]
    IN  slice(SortDescending(SelectSeq(items, LAMBDA item : item.count > 0),
                             LAMBDA item : item.count),
              0, MaxThemes)

\* flatComments of generateCommentInsights and what was made of them
NoAnalysis == [comments |-> <<>>, ran |-> {}, likedWords |-> <<>>, themes |-> <<>>]

\* analyzeLikedCommentWords(flatComments), which sorts flatComments in place;
\* generateCommentInsights calls it before analyzeThemes
analyzeLikedCommentWords ==
    /\ analysis.ran = {}
    /\ analysis' = [analysis EXCEPT !.ran = @ \cup {"likedWords"},
                                    !.comments = sortComments(@, "likes-desc"),
                                    !.likedWords = LikedWords(analysis.comments)]
    /\ UNCHANGED <<app, detail, extractor>>
    /\ UNCHANGED <<loaderVars, archiveVars, managerVars>>

\* analyzeThemes(flatComments)
analyzeThemes ==
    /\ "themes" \notin analysis.ran
    /\ analysis' = [analysis EXCEPT !.ran = @ \cup {"themes"},
                                    !.themes = ThemesData(analysis.comments)]
    /\ UNCHANGED <<app, detail, extractor>>
    /\ UNCHANGED <<loaderVars, archiveVars, managerVars>>

ViewIdle ==
    /\ app = NoApp
    /\ detail = NoDetail
    /\ extractor = NoExtractor
    /\ analysis = NoAnalysis

\* DataManager.initialize: this.videos = archiveData.videos
ManagerIdle ==
    /\ dataManager = [videos |-> <<>>]
    /\ grid = NoGrid
    /\ comments = NoComments
    /\ tree = NoTree
    /\ exportService = NoExport

\* loadVideoGrid with the filters of the moment (currentFilters and the
\* search box) and the page asked for
loadVideoGrid(pagination) ==
    /\ grid' = [grid EXCEPT
          !.loaded = TRUE,
          !.pagination = pagination,
          !.result = getVideos(dataManager.videos, DataManagerFilters(grid.filters),
                               pagination),
          !.finalResult = LoadVideoGrid(dataManager.videos, grid.filters, pagination)]
    /\ UNCHANGED <<dataManager, comments, tree, exportService>>
    /\ UNCHANGED <<loaderVars, archiveVars, viewVars>>

NoSources ==
    [type |-> "", dir |-> "nodir", file |-> [k \in 1..NumPatterns |-> "missing"],
     root |-> "nofile", flat |-> "nofile", bundled |-> "neterr"]

Init ==
    /\ directoryHandle = NoHandle
    /\ cache = <<>>
    /\ calls = <<>>
    /\ resolved = <<>>
    /\ volatile = TRUE
    /\ fs = NoSources
    /\ ArchiveIdle
    /\ ManagerIdle
    /\ ViewIdle

Next ==
    \/ \E t \in Types : \E id \in CallIds(t) : LoadStart(t, id)
    \/ \E i \in 1..Len(calls) : LoadStep(i)
    \/ \E h \in Handles \cup {NoHandle} : setDirectoryHandle(h)
    \/ clearCache

Spec == Init /\ [][Next]_vars

(***************************************************************************)
(* Sessions in which the sources are part of the state: a read yields what *)
(* the source holds when the read completes.                               *)
(***************************************************************************)
\* what a source of artifact type t can hold
SourceOutcomes(t, src) ==
    CASE src = "dir" -> {"nodir", "ok"}
      [] src = "file" -> Outcomes(t, File(1)) \ {"badshape"}
      [] src = "root" -> IF t = "transcript" THEN {"nofile"} ELSE {"nofile", "lacks", "has"}
      [] src = "flat" -> {"nofile", "lacks", "has"}
      [] OTHER -> IF t = "comments" THEN {"neterr", "lacks", "has", "undated"}
                  ELSE {"neterr", "lacks", "has"}

\* the structured folder holds at most one candidate file for the id
FolderShapes(t) ==
    {[k \in 1..NumPatterns |-> IF k = j THEN o ELSE "missing"] :
        j \in 1..NumPatterns, o \in SourceOutcomes(t, "file")}

SourceShapes(t) ==
    {sh \in [type : {t},
             dir : SourceOutcomes(t, "dir"),
             file : FolderShapes(t),
             root : SourceOutcomes(t, "root"),
             flat : SourceOutcomes(t, "flat"),
             bundled : SourceOutcomes(t, "bundled")] :
        sh.dir = "nodir" => sh.file = NoSources.file}

InitSources ==
    /\ directoryHandle \in Handles \cup {NoHandle}
    /\ cache = <<>>
    /\ calls = <<>>
    /\ resolved = <<>>
    /\ volatile = FALSE
    /\ fs \in UNION {SourceShapes(t) : t \in PerVideoTypes}
    /\ ArchiveIdle
    /\ ManagerIdle
    /\ ViewIdle

NextSources ==
    \/ \E t \in PerVideoTypes : \E id \in CallIds(t) : LoadStart(t, id)
    \/ \E i \in 1..Len(calls) : LoadStep(i)
    \/ \E h \in Handles \cup {NoHandle} : setDirectoryHandle(h)

SpecSources == InitSources /\ [][NextSources]_vars

\* Sessions in which the directory handle is the same from start to end
NextChains ==
    \/ \E t \in PerVideoTypes : \E id \in CallIds(t) : LoadStart(t, id)
    \/ \E i \in 1..Len(calls) : LoadStep(i)

SpecChains == InitSources /\ [][NextChains]_vars


(***************************************************************************)
(* Sessions of discovery and assembly.  The archive is what the server and *)
(* the index files hold; the per-video loaders are not called.             *)
(***************************************************************************)
Entry(id, title, view_count) ==
    [video_id |-> id, title |-> title, view_count |-> view_count,
     like_count |-> Undefined, comment_count |-> Undefined, duration |-> Undefined]

Hundred == Str(<<"1", "0", "0">>)

\* metadata files: empty, one entry, two entries for one id, an entry
\* without an id, entries for both ids
MetadataShapes ==
    {<<>>,
     <<Entry("AAAAAAAAAAA", "Test", Hundred)>>,
     <<Entry("AAAAAAAAAAA", "Test", Hundred), Entry("AAAAAAAAAAA", "Other", Undefined)>>,
     <<Entry("constructor", "Test", Hundred)>>,
     <<Entry("", "Test", Hundred), Entry("AAAAAAAAAAA", "", Hundred)>>,
     <<Entry("abc", "Test", Hundred)>>,
     <<Entry("AAAAAAAAAAA", "Test", Hundred), Entry("constructor", "Other", Num(42))>>}

ListingShapes ==
    [transcripts : SUBSET Shortcodes, summaries : SUBSET {"AAAAAAAAAAA"},
     comments : SUBSET {"AAAAAAAAAAA"}, videos : SUBSET Shortcodes]

\* an index file: no entry, or one entry for the id with a text or with ""
IndexFiles == {EmptyIndex} \cup {[k \in {"AAAAAAAAAAA"} |-> v] : v \in {"text", ""}}

IndexShapes == [transcripts : IndexFiles, summaries : IndexFiles, comments : IndexFiles]

KeywordShapes == SUBSET {"AAAAAAAAAAA"}

Archives ==
    {a \in [api : {"up", "down"}, listing : ListingShapes, metadata_ok : BOOLEAN,
            metadata : MetadataShapes, indexes : IndexShapes, keywords : KeywordShapes,
            info : {NoInfo}] :
        ~a.metadata_ok => a.metadata = <<>>}

LoaderIdle ==
    /\ directoryHandle = NoHandle
    /\ cache = <<>>
    /\ calls = <<>>
    /\ resolved = <<>>
    /\ fs = NoSources

NextArchive ==
    \/ DiscoverStart
    \/ \E i \in 1..Len(dcalls) : DiscoverStep(i)
    \/ buildVideoData

\* the discovery API answers or fails from one request to the next
InitDiscovery ==
    /\ LoaderIdle
    /\ volatile = TRUE
    /\ archive \in {a \in Archives :
                      /\ a.api = "up"
                      /\ a.keywords = {}
                      /\ a.listing.summaries = {} /\ a.listing.comments = {}}
    /\ fileDiscovery = NoDiscovery
    /\ dcalls = <<>>
    /\ videos = NotBuilt
    /\ ManagerIdle
    /\ ViewIdle

SpecDiscovery == InitDiscovery /\ [][NextArchive]_vars

\* the discovery API is up for the session, or down for the session
InitAssemble ==
    /\ LoaderIdle
    /\ volatile = FALSE
    /\ archive \in {a \in Archives :
                      /\ a.api = "up" => a.indexes = NoIndexes
                      /\ a.api = "down" => a.listing = NoMaps}
    /\ fileDiscovery = NoDiscovery
    /\ dcalls = <<>>
    /\ videos = NotBuilt
    /\ ManagerIdle
    /\ ViewIdle

SpecAssemble == InitAssemble /\ [][NextArchive]_vars

\* the count fields of the metadata entry vary: view_count over every string
\* of at most MaxLen characters, the other three over a few values
CountChars == {"0", "1", "-", "a", " "}

CountStrings == UNION {[1..n -> CountChars] : n \in 0..MaxLen}

RawCounts == {Undefined, Num(0), Num(42), Num(0 - 5)} \cup {Str(s) : s \in CountStrings}

SampleCounts == {Undefined, Str(<<"4", "2">>)}

CountedEntries ==
    [video_id : {"AAAAAAAAAAA"}, title : {"Test"}, view_count : RawCounts,
     like_count : SampleCounts \cup {Num(7)}, comment_count : SampleCounts,
     duration : SampleCounts \cup {Str(<<"1", "2", "a">>)}]

InitCounts ==
    /\ LoaderIdle
    /\ volatile = FALSE
    /\ \E e \in CountedEntries :
          archive = [api |-> "up",
                     listing |-> [NoMaps EXCEPT !.videos = {"AAAAAAAAAAA"}],
                     metadata_ok |-> TRUE, metadata |-> <<e>>,
                     indexes |-> NoIndexes, keywords |-> {}, info |-> NoInfo]
    /\ fileDiscovery = NoDiscovery
    /\ dcalls = <<>>
    /\ videos = NotBuilt
    /\ ManagerIdle
    /\ ViewIdle

SpecCounts == InitCounts /\ [][NextArchive]_vars

\* Sessions of the older loader, which reads the .info.json file of each
\* video: the metadata entry and the info payload of one video vary.
PrimaryCounts == {Undefined, Num(0), Str(<<"7">>)}

OverlaidEntries ==
    [video_id : {"AAAAAAAAAAA"}, title : {"", "Test"}, view_count : PrimaryCounts,
     like_count : PrimaryCounts, comment_count : {Undefined, Num(0)},
     duration : {Undefined, Str(<<"7">>)}]

InfoPayloads ==
    {NoInfo,
     [title |-> "Info", view_count |-> Num(42), like_count |-> Str(<<"4", "2">>),
      comment_count |-> Num(42), duration |-> Num(42)],
     [NoInfo EXCEPT !.like_count = Num(42)]}

InitOverlay ==
    /\ LoaderIdle
    /\ volatile = FALSE
    /\ \E e \in OverlaidEntries, info \in InfoPayloads :
          archive = [api |-> "up",
                     listing |-> [NoMaps EXCEPT !.videos = {"AAAAAAAAAAA"}],
                     metadata_ok |-> TRUE, metadata |-> <<e>>,
                     indexes |-> NoIndexes, keywords |-> {}, info |-> info]
    /\ fileDiscovery = NoDiscovery
    /\ dcalls = <<>>
    /\ videos = NotBuilt
    /\ ManagerIdle
    /\ ViewIdle

SpecOverlay == InitOverlay /\ [][NextArchive]_vars

\* Sessions of the video grid: the list initialize took over from the archive
\* and the filters are fixed, and the grid is loaded with any page.
Video(id, title, description, published_at, view_count, comment_count, keywords) ==
    [video_id |-> id, title |-> title, description |-> description,
     published_at |-> published_at, view_count |-> view_count,
     comment_count |-> comment_count, keywords |-> keywords]

\* three records that tie pairwise on the views, the comments and the title
Catalogue ==
    {Video("AAAAAAAAAAA", <<"a">>, <<>>, IsoDate(1), 1, 0, << <<"a">> >>),
     Video("BBBBBBBBBBB", <<"B">>, <<"a">>, IsoDate(2), 1, 2, <<>>),
     Video("CCCCCCCCCCC", <<"a">>, <<>>, NoDate, 0, 2, << <<"A", "b">> >>)}

VideoLists ==
    {list \in UNION {[1..n -> Catalogue] : n \in 0..Cardinality(Catalogue)} :
        \A i, j \in 1..Len(list) : i # j => list[i].video_id # list[j].video_id}

\* the search box holds a text, or shows the keyword filter
SearchAndKeyword ==
    {[search |-> <<>>, keyword |-> <<>>],
     [search |-> <<"A">>, keyword |-> <<>>],
     [search |-> KeywordSyntax \o <<"a", "\"">>, keyword |-> <<"a">>]}

Requests ==
    {[search |-> sk.search, dateFrom |-> from, dateTo |-> to, minViews |-> minViews,
      minComments |-> minComments, sortBy |-> sortBy, keyword |-> sk.keyword] :
        sk \in SearchAndKeyword, from \in {NoDate, IsoDate(2)},
        to \in {NoDate, IsoDate(1)}, minViews \in {Undefined, Str(<<"1">>)},
        minComments \in {Undefined, Num(2)}, sortBy \in SortOptions \cup {""}}

Paginations == [page : 1..MaxPage, limit : PageSizes]

InitQuery ==
    /\ LoaderIdle
    /\ ViewIdle
    /\ volatile = FALSE
    /\ ArchiveIdle
    /\ dataManager \in [videos : VideoLists]
    /\ grid \in {[NoGrid EXCEPT !.filters = filters] : filters \in Requests}
    /\ comments = NoComments
    /\ tree = NoTree
    /\ exportService = NoExport

NextQuery == \E pagination \in Paginations : loadVideoGrid(pagination)

SpecQuery == InitQuery /\ [][NextQuery]_vars

\* Sessions of the comments of one video: the bundled file holds up to three
\* of these comments, and the queries come in any order.
RawComment(id, text, like_count, published_at, is_reply, parent) ==
    [id |-> id, author |-> <<>>, text |-> text, like_count |-> like_count,
     published_at |-> published_at, is_reply |-> is_reply, parent |-> parent]

\* two comments and a third with the id of the first; a reply without an id,
\* a reply to a comment that is not in the file, and a reply to that reply
RawComments ==
    {RawComment("c1", <<"a">>, Num(1), 1, FALSE, ""),
     RawComment("c2", <<"b">>, Str(<<"5">>), 2, FALSE, ""),
     RawComment("c1", <<"b">>, Num(5), 3, FALSE, ""),
     RawComment("", <<"a">>, Undefined, 0, TRUE, "c1"),
     RawComment("r1", <<"b">>, Num(1), 2, TRUE, "zz"),
     RawComment("r2", <<"a">>, Num(5), 1, TRUE, "r1")}

CommentFiles ==
    {list \in UNION {[1..n -> RawComments] : n \in 0..3} :
        \A i, j \in 1..Len(list) : i # j => list[i] # list[j]}

CommentQueries ==
    [search : {<<>>, <<"a">>}, repliesOnly : BOOLEAN, sortBy : {"", "likes-asc", "date-asc"}]

InitComments ==
    /\ LoaderIdle
    /\ ViewIdle
    /\ volatile = FALSE
    /\ ArchiveIdle
    /\ dataManager = [videos |-> <<>>]
    /\ grid = NoGrid
    /\ comments \in {[NoComments EXCEPT !.shortcode = "AAAAAAAAAAA", !.raw = raw] :
                        raw \in CommentFiles}
    /\ tree = NoTree
    /\ exportService = NoExport

NextComments ==
    \/ \E filters \in CommentQueries : getComments(filters)
    \/ \E filters \in CommentQueries : getAllComments(filters)
    \/ generateCommentInsights

SpecComments == InitComments /\ [][NextComments]_vars

\* Sessions of the reply lists: a comment and up to three replies to it, in
\* any order in the file, whose likes and dates rank them differently.
ReplyFiles ==
    LET thread == {RawComment("c1", <<"a">>, Num(1), 1, FALSE, ""),
                   RawComment("r1", <<"a">>, Num(1), 2, TRUE, "c1"),
                   RawComment("r2", <<"b">>, Num(5), 1, TRUE, "c1"),
                   RawComment("r3", <<"b">>, Num(1), 3, TRUE, "c1")}
    IN  {list \in UNION {[1..n -> thread] : n \in 0..3} :
            \A i, j \in 1..Len(list) : i # j => list[i] # list[j]}

InitReplies ==
    /\ LoaderIdle
    /\ ViewIdle
    /\ volatile = FALSE
    /\ ArchiveIdle
    /\ dataManager = [videos |-> <<>>]
    /\ grid = NoGrid
    /\ comments \in {[NoComments EXCEPT !.shortcode = "AAAAAAAAAAA", !.raw = raw] :
                        raw \in ReplyFiles}
    /\ tree = NoTree
    /\ exportService = NoExport

SpecReplies == InitReplies /\ [][NextComments]_vars

\* Sessions of the bulk export: the comments of each video are counted, a ZIP
\* holds one or two comments, and cancelExport comes at any await.
ExportPlans == {<<>>, <<2>>, <<0, 1>>}

BatchSizes == {1, 2}

InitExport ==
    /\ LoaderIdle
    /\ ViewIdle
    /\ volatile = FALSE
    /\ ArchiveIdle
    /\ dataManager = [videos |-> <<>>]
    /\ grid = NoGrid
    /\ comments = NoComments
    /\ tree = NoTree
    /\ exportService \in {[NoExport EXCEPT !.videos = plan, !.maxCommentsPerZip = size] :
                             plan \in ExportPlans, size \in BatchSizes}

NextExport ==
    \/ exportAllVideos
    \/ \E k \in 1..Len(exportService.runs) : ExportStep(k)
    \/ cancelExport

SpecExport == InitExport /\ [][NextExport]_vars

\* every run of the export that waits is resumed in the end: what it waits
\* for (a query, an image, a ZIP, a timer) settles
ExportFairness ==
    \A k \in 1..MaxExports :
        WF_vars(k \in 1..Len(exportService.runs) /\ ExportStep(k))

SpecExportFair == SpecExport /\ ExportFairness

\* Sessions of the start of the application: each source answers the same
\* way for the whole session, and the directory handle is set or not.
Sites ==
    [api : {"neterr", "notok", "badjson", "nosuccess", "up"},
     root : {"missing", "badjson", "has"},
     explorer : {"nodir", "missing", "badjson", "has"},
     bundled : {"neterr", "notok", "badjson", "has"},
     flat : {"ok", "null"}]

\* loadVideoMetadata can return the entries
Reachable(site, handle) ==
    \/ site.bundled = "has"
    \/ handle # NoHandle /\ (site.root = "has" \/ site.explorer = "has")

StartupArchives ==
    {a \in Archives :
        /\ a.keywords = {}
        /\ a.listing \in {NoMaps, [NoMaps EXCEPT !.transcripts = {"AAAAAAAAAAA"},
                                                 !.videos = {"AAAAAAAAAAA"}]}
        /\ a.metadata \in {<<>>, <<Entry("AAAAAAAAAAA", "Test", Hundred)>>}
        /\ a.indexes.summaries = EmptyIndex /\ a.indexes.comments = EmptyIndex}

InitStartup ==
    /\ directoryHandle \in Handles \cup {NoHandle}
    /\ cache = <<>>
    /\ calls = <<>>
    /\ resolved = <<>>
    /\ fs = NoSources
    /\ volatile = FALSE
    /\ app \in {[NoApp EXCEPT !.site = site] : site \in Sites}
    /\ directoryHandle = NoHandle => app.site.root = "missing" /\ app.site.explorer = "nodir"
    /\ archive \in {a \in StartupArchives :
                      /\ a.api = "up" <=> app.site.api = "up"
                      /\ a.metadata_ok <=> Reachable(app.site, directoryHandle)}
    /\ fileDiscovery = NoDiscovery
    /\ dcalls = <<>>
    /\ videos = NotBuilt
    /\ ManagerIdle
    /\ detail = NoDetail
    /\ extractor = NoExtractor
    /\ analysis = NoAnalysis

NextStartup ==
    \/ startApp
    \/ ApiStep
    \/ MetadataStep
    \/ IndexesStep
    \/ KeywordsStep
    \/ BuildStep
    \/ GridStep
    \/ handleSearch

SpecStartup == InitStartup /\ [][NextStartup]_vars

\* Sessions of the video-detail view: two videos of the list, one with
\* keywords and one without, and a library that holds or lacks each
\* artifact of each of them.
DetailList ==
    <<Video("AAAAAAAAAAA", <<"a">>, <<>>, IsoDate(1), 1, 0, << <<"a">> >>),
      Video("BBBBBBBBBBB", <<"B">>, <<"a">>, IsoDate(2), 1, 2, <<>>)>>

DetailIds == {"AAAAAAAAAAA", "BBBBBBBBBBB"}

\* the second video has every artifact, the first lacks one of the three
Libraries ==
    {library \in [transcript : SUBSET DetailIds, summary : SUBSET DetailIds,
                  comments : SUBSET DetailIds] :
        /\ \A t \in DOMAIN library : "BBBBBBBBBBB" \in library[t]
        /\ Cardinality({t \in DOMAIN library : "AAAAAAAAAAA" \notin library[t]}) = 1}

InitDetail ==
    /\ LoaderIdle
    /\ volatile = FALSE
    /\ ArchiveIdle
    /\ dataManager = [videos |-> DetailList]
    /\ grid = NoGrid
    /\ comments = NoComments
    /\ tree = NoTree
    /\ exportService = NoExport
    /\ app = NoApp
    /\ detail \in {[NoDetail EXCEPT !.library = library] : library \in Libraries}
    /\ extractor = NoExtractor
    /\ analysis = NoAnalysis

NextDetail ==
    \/ \E videoId \in DetailIds \cup {"abc"} : showVideoDetail(videoId)
    \/ \E k \in 1..Len(detail.runs) : DetailStep(k)
    \/ \E k \in 1..Len(detail.runs) : \E t \in {"transcript", "summary"} : ContentLoaded(k, t)
    \/ showVideoGrid

SpecDetail == InitDetail /\ [][NextDetail]_vars

\* Sessions of the identifier extraction: the filename is made of parts:
\* ids, the texts of the patterns, and characters that are not of an id.
Ids == {[k \in 1..IdLength |-> "A"],
        <<"a", "_", "s", "u", "m", "m", "a", "r", "y", "_", "b">>,
        <<"-", "_", "0", "-", "_", "0", "-", "_", "0", "-", "_">>}

Parts ==
    Ids \cup {Chars("_en_auto_ytdlp"), Chars("_summary"), Chars("_comments"),
              Chars("_youtube"), Chars(".mp4"), Chars("_"), <<"x">>, <<" ">>,
              <<"a", "b", "c">>}

RECURSIVE Filenames(_)
Filenames(n) ==
    IF n = 0 THEN {<<>>}
    ELSE Filenames(n - 1) \cup {f \o part : f \in Filenames(n - 1), part \in Parts}

InitExtract ==
    /\ LoaderIdle
    /\ volatile = FALSE
    /\ ArchiveIdle
    /\ ManagerIdle
    /\ app = NoApp
    /\ detail = NoDetail
    /\ extractor \in {[NoExtractor EXCEPT !.filename = f] : f \in Filenames(MaxParts)}
    /\ analysis = NoAnalysis

NextExtract ==
    \/ Extract
    \/ ExtractAgain

SpecExtract == InitExtract /\ [][NextExtract]_vars

\* Sessions of the analytics: up to MaxComments comments whose texts hold
\* keywords of the themes, a keyword as part of another word, a word twice
\* and punctuation, alone or followed by eight comments that nobody liked,
\* so that the most-liked fifth is one comment or two.
AnalysedComments ==
    {[text |-> <<"r", "e", "c", "i", "p", "e", " ", "l", "i", "n", "k", " ", "c", "o", "o", "k">>,
      like_count |-> 2],
     [text |-> <<"t", "h", "a", "n", "k", " ", "y", "o", "u">>,
      like_count |-> 1],
     [text |-> <<"A", "m", "a", "z", "i", "n", "g", " ", "r", "e", "s", "u", "l", "t", "s">>,
      like_count |-> 5],
     [text |-> <<"c", "o", "o", "k", ",", " ", "c", "o", "o", "k", "!">>,
      like_count |-> 5],
     [text |-> <<"g", "r", "e", "a", "t", " ", "r", "e", "c", "i", "p", "e">>,
      like_count |-> 2],
     [text |-> <<"o", "k", ",", " ", "t", "h", "a", "n", "k", " ", "y", "o", "u">>,
      like_count |-> 0]}

Filler == [text |-> <<"o", "k">>, like_count |-> 0]

Fillers == {<<>>, [k \in 1..8 |-> Filler]}

InitAnalysis ==
    /\ LoaderIdle
    /\ volatile = FALSE
    /\ ArchiveIdle
    /\ ManagerIdle
    /\ app = NoApp
    /\ detail = NoDetail
    /\ extractor = NoExtractor
    /\ analysis \in {[NoAnalysis EXCEPT !.comments = list \o rest] :
                        list \in UNION {[1..n -> AnalysedComments] : n \in 0..MaxComments},
                        rest \in Fillers}

NextAnalysis ==
    \/ analyzeLikedCommentWords
    \/ analyzeThemes

SpecAnalysis == InitAnalysis /\ [][NextAnalysis]_vars

(***************************************************************************)
(* Properties of the resolution chains                                     *)
(***************************************************************************)
IsDone(c) == c.pc = Done

RanChain(c) == c.trace # <<>>

SameKey(a, b) == a.type = b.type /\ a.id = b.id

\* the steps a call has started so far, the pending one included
Started(c) == IF IsDone(c) THEN c.trace ELSE Append(c.trace, c.pc)

\* C1 (as amended): a load call never throws, whatever fails on the way; it
\* returns a payload or the empty value of its type: null for transcript,
\* summary and metadata, an empty list for comments, an empty map for keywords.
C1_NeverThrows ==
    \A i \in 1..Len(calls) :
        IsDone(calls[i]) =>
            calls[i].res.kind \in {"payload", Exhausted(calls[i].type).kind}

\* C1 (original): every load call completes with a payload or null.
C1_PayloadOrNull ==
    \A i \in 1..Len(calls) :
        IsDone(calls[i]) => calls[i].res.kind \in {"payload", "null"}

\* a call whose chain failed at two steps or more and returned its empty value
C1_Witness ==
    \E i \in 1..Len(calls) :
        /\ IsDone(calls[i])
        /\ Len(calls[i].trace) >= 2
        /\ calls[i].res = Exhausted(calls[i].type)

C3_SecondFromCache ==
    /\ \A k \in DOMAIN resolved : k \in DOMAIN cache /\ cache[k].kind = "payload"
    /\ \A i \in 1..Len(calls) :
          IsDone(calls[i]) /\ calls[i].prior > 0 =>
              /\ calls[i].trace = <<>>
              /\ calls[i].res.kind = "payload"
              /\ calls[i].res.video_id = calls[i].id

\* C3 (original): a transcript call that follows a successful one issues,
\* together with it, exactly one fetch or read.
C3_ExactlyOneRead ==
    \A i \in 1..Len(calls) :
        calls[i].type = "transcript" /\ IsDone(calls[i]) /\ calls[i].prior > 0 =>
            calls[i].prior + Len(calls[i].trace) = 1

\* a transcript call answered from the cache after a resolution that needed
\* two reads or more
C3_Witness ==
    \E i \in 1..Len(calls) :
        /\ calls[i].type = "transcript"
        /\ IsDone(calls[i])
        /\ calls[i].prior >= 2
        /\ calls[i].trace = <<>>

\* C4: an exhausted chain writes nothing to the cache: the cache holds
\* payloads only, and a call is answered from the cache only after the key
\* was resolved with a payload, so a call after an exhausted one runs the
\* chain again.
C4_NullNotCached ==
    /\ \A k \in DOMAIN cache : cache[k].kind = "payload"
    /\ \A i \in 1..Len(calls) :
          IsDone(calls[i]) /\ ~RanChain(calls[i]) => calls[i].prior > 0

\* a comments call that found nothing without a directory handle, followed by
\* one for the same id that started in the user's folder and got a payload
C4_Witness ==
    \E i, j \in 1..Len(calls) :
        /\ i < j
        /\ SameKey(calls[i], calls[j])
        /\ calls[i].type = "comments"
        /\ calls[i].res = Exhausted("comments")
        /\ calls[i].trace = <<Bundled>>
        /\ calls[j].res.kind = "payload"
        /\ RanChain(calls[j])
        /\ calls[j].trace[1] = Dir

\* C5: an entry of the cache stays as it is until clearCache empties the
\* cache.
C5_EntryNeverReplaced ==
    [][cache' # <<>> =>
          \A k \in DOMAIN cache : k \in DOMAIN cache' /\ cache'[k] = cache[k]]_vars

\* C6: two calls for the same key that both ran the chain (the second was
\* started before the first stored its payload) return the same payload, and
\* the cache holds that payload.
C6_SameOutcome ==
    \A i, j \in 1..Len(calls) :
        /\ i < j
        /\ SameKey(calls[i], calls[j])
        /\ IsDone(calls[i]) /\ IsDone(calls[j])
        /\ RanChain(calls[i]) /\ RanChain(calls[j])
        /\ calls[i].res.kind = "payload"
        => /\ calls[j].res = calls[i].res
           /\ cache[CacheKey(calls[i].type, calls[i].id)] = calls[i].res

(***************************************************************************)
(* Properties of discovery and assembly                                    *)
(***************************************************************************)
\* the ids that are a key of one of the four discovery maps
DiscoveredIds(maps) ==
    maps.transcripts \cup maps.summaries \cup maps.comments \cup maps.videos

\* C7: once a discovery has set the map, the map is not written again, and
\* a discoverFiles call started from then on returns that map without any
\* request.
C7_WrittenOnce ==
    [][fileDiscovery.success =>
          /\ fileDiscovery' = fileDiscovery
          /\ \A i \in 1..Len(dcalls') :
                i > Len(dcalls) =>
                    /\ dcalls'[i].pc = "done"
                    /\ dcalls'[i].res = fileDiscovery
                    /\ dcalls'[i].reads = 0]_vars

\* C8: the ids of the assembled list are the ids that are a key of one of
\* the four discovery maps, each once; a metadata entry whose id is in no
\* map gives no record, and an id without a metadata entry gets placeholder
\* fields.
C8_UnionOfKeys ==
    videos.built =>
        LET ids == DiscoveredIds(fileDiscovery.discovery) IN
        /\ {videos.list[i].video_id : i \in 1..Len(videos.list)} = ids
        /\ Len(videos.list) = Cardinality(ids)
        /\ \A i \in 1..Len(videos.list) :
              Find(archive.metadata, videos.list[i].video_id) = NoEntry =>
                  /\ videos.list[i].title = <<"BGCA Video", videos.list[i].video_id>>
                  /\ videos.list[i].view_count = 0

\* a list assembled when a metadata entry has no artifact, a discovered id
\* has no metadata entry, and an id is a key of two maps
C8_Witness ==
    /\ videos.built
    /\ \E i \in 1..Len(archive.metadata) :
          /\ archive.metadata[i].video_id # ""
          /\ archive.metadata[i].video_id \notin DiscoveredIds(fileDiscovery.discovery)
    /\ \E i \in 1..Len(videos.list) :
          /\ Find(archive.metadata, videos.list[i].video_id) = NoEntry
          /\ videos.list[i].video_id \in fileDiscovery.discovery.transcripts
          /\ videos.list[i].video_id \in fileDiscovery.discovery.videos

\* C9: each has* flag of an assembled record tells whether the id is a key
\* of the corresponding discovery map; a record whose id is a key of the
\* videos map only, with view_count "100" and no keywords entry, has
\* has_video_file, not has_transcript, view_count 100 and no keywords.
C9_FlagsAreKeys ==
    videos.built =>
        \A i \in 1..Len(videos.list) :
            LET r == videos.list[i]
                maps == fileDiscovery.discovery
            IN  /\ r.has_transcript = (r.video_id \in maps.transcripts)
                /\ r.has_summary = (r.video_id \in maps.summaries)
                /\ r.has_comments = (r.video_id \in maps.comments)
                /\ r.has_video_file = (r.video_id \in maps.videos)
                /\ /\ r.video_id \notin maps.transcripts \cup maps.summaries \cup maps.comments
                   /\ Find(archive.metadata, r.video_id).view_count = Hundred
                   /\ r.video_id \notin archive.keywords
                   => r.has_video_file /\ ~r.has_transcript
                      /\ r.view_count = 100 /\ r.keywords = <<>>

\* a string that is a number: an optional sign and digits, after white space
NumericString(s) ==
    LET t == SkipWhiteSpace(s)
        u == IF t # <<>> /\ t[1] \in {"-", "+"} THEN Tail(t) ELSE t
    IN  u # <<>> /\ \A k \in 1..Len(u) : u[k] \in DigitChars

IsNumeric(raw) == raw.t = "number" \/ (raw.t = "string" /\ NumericString(raw.s))

\* C10: the four counts of an assembled record are non-negative integers,
\* and a count is 0 when its source value is absent or not a number.
C10_CountsNormalised ==
    videos.built =>
        \A i \in 1..Len(videos.list) :
            LET r == videos.list[i]
                e == Find(archive.metadata, r.video_id)
            IN  /\ r.view_count \in Nat /\ (~IsNumeric(e.view_count) => r.view_count = 0)
                /\ r.like_count \in Nat /\ (~IsNumeric(e.like_count) => r.like_count = 0)
                /\ r.comment_count \in Nat
                /\ ~IsNumeric(e.comment_count) => r.comment_count = 0
                /\ r.duration \in Nat /\ (~IsNumeric(e.duration) => r.duration = 0)

\* a field the metadata entry has
Has(raw) == raw.t # "undefined"

\* C11: a field of an assembled record comes from the metadata entry
\* whenever the entry has the field, whatever the info payload holds; the
\* info payload is used only for a field the entry lacks.
C11_PrimaryWins ==
    videos.built =>
        \A i \in 1..Len(videos.list) :
            LET r == videos.list[i]
                e == Find(archive.metadata, r.video_id)
                info == archive.info
            IN  /\ r.view_count = CountOf(IF Has(e.view_count) THEN e.view_count
                                          ELSE info.view_count)
                /\ r.like_count = CountOf(IF Has(e.like_count) THEN e.like_count
                                          ELSE info.like_count)
                /\ r.comment_count = CountOf(IF Has(e.comment_count) THEN e.comment_count
                                             ELSE info.comment_count)
                /\ r.duration = CountOf(IF Has(e.duration) THEN e.duration
                                        ELSE info.duration)
                /\ e.title # "" => r.title = <<e.title>>

\* C12: every id of the assembled list is 11 characters of letters, digits,
\* '_' and '-', whatever the metadata entries and the discovery sources hold.
C12_IdGrammar ==
    videos.built =>
        \A i \in 1..Len(videos.list) : MatchesIdGrammar(videos.list[i].video_id)

\* C13: in the map fallbackDiscovery builds, a metadata id is a key of the
\* transcripts, summaries or comments map exactly when it is a key of the
\* corresponding bulk index, whatever value the index holds for it.
C13_PresenceIsKey ==
    archive.api = "down" /\ fileDiscovery.success =>
        \A id \in EntryIds(archive.metadata) :
            /\ id \in fileDiscovery.discovery.transcripts
                  <=> id \in DOMAIN archive.indexes.transcripts
            /\ id \in fileDiscovery.discovery.summaries
                  <=> id \in DOMAIN archive.indexes.summaries
            /\ id \in fileDiscovery.discovery.comments
                  <=> id \in DOMAIN archive.indexes.comments

(***************************************************************************)
(* The query over the video list                                           *)
(***************************************************************************)
\* the free text of a request: the search box, unless it shows the keyword filter
FreeText(filters) == DataManagerFilters(filters).search

WithinBounds(video, filters) ==
    /\ video.published_at.iso
    /\ filters.dateFrom # NoDate => video.published_at.day >= filters.dateFrom.day
    /\ filters.dateTo # NoDate => video.published_at.day <= filters.dateTo.day

HasDateRange(filters) == filters.dateFrom # NoDate \/ filters.dateTo # NoDate

\* the filters of a request other than the date range
SatisfiesOthers(video, filters) ==
    /\ FreeText(filters) # <<>> =>
          \/ includes(toLowerCase(video.title), toLowerCase(FreeText(filters)))
          \/ includes(toLowerCase(video.description), toLowerCase(FreeText(filters)))
    /\ ~Falsy(filters.minViews) => video.view_count >= parseInt(filters.minViews).v
    /\ ~Falsy(filters.minComments) => video.comment_count >= parseInt(filters.minComments).v
    /\ filters.keyword # <<>> => hasKeyword(video.keywords, filters.keyword)

Satisfies(video, filters) ==
    /\ SatisfiesOthers(video, filters)
    /\ HasDateRange(filters) => WithinBounds(video, filters)

\* the items of the pages 1..n of the grid, one page after the other
RECURSIVE PagesUpTo(_, _, _, _)
PagesUpTo(list, filters, limit, n) ==
    IF n = 0 THEN <<>>
    ELSE PagesUpTo(list, filters, limit, n - 1)
         \o LoadVideoGrid(list, filters, [page |-> n, limit |-> limit]).videos

\* all the pages of the last request
AllPages ==
    PagesUpTo(dataManager.videos, grid.filters, grid.pagination.limit,
              grid.finalResult.totalPages)

Listed(video) == \E k \in 1..Len(AllPages) : AllPages[k] = video

\* C14: at a fixed page size the pages 1..totalPages, one after the other,
\* are exactly the videos that satisfy every filter of the request (free
\* text, date range, minimum counts, keyword), in the order of the sort.
C14_PagesAreTheFilteredSet ==
    grid.loaded =>
        AllPages = sort(SelectSeq(dataManager.videos,
                                  LAMBDA video : Satisfies(video, grid.filters)),
                        SortBy(grid.filters))

C16_DateRange ==
    grid.loaded /\ HasDateRange(grid.filters) =>
        \A i \in 1..Len(dataManager.videos) :
            LET video == dataManager.videos[i] IN
            /\ ~video.published_at.iso => ~Listed(video)
            /\ video.published_at.iso /\ SatisfiesOthers(video, grid.filters) =>
                  (Listed(video) <=> WithinBounds(video, grid.filters))

\* the videos of the last request after its filters, in the order of the list
Selected ==
    SelectSeq(dataManager.videos,
              LAMBDA video : Passes(video, DataManagerFilters(grid.filters)))

Position(list, video) == CHOOSE k \in 1..Len(list) : list[k] = video

\* C17: under every sort option two videos that compare equal keep the order
\* they had in the input, and sorting the sorted list again changes nothing.
C17_StableSort ==
    grid.loaded =>
        LET sortBy == SortBy(grid.filters)
            sorted == FilteredVideos(dataManager.videos, DataManagerFilters(grid.filters))
        IN  /\ sort(sorted, sortBy) = sorted
            /\ \A i, j \in 1..Len(Selected) :
                  i < j /\ SortCompare(sortBy, Selected[i], Selected[j]) = 0 =>
                      Position(sorted, Selected[i]) < Position(sorted, Selected[j])

\* a sort by the views that moved a video and kept two tied videos in order
C17_Witness ==
    /\ grid.loaded
    /\ grid.filters.sortBy = "views-desc"
    /\ Len(Selected) = 3
    /\ FilteredVideos(dataManager.videos, DataManagerFilters(grid.filters)) # Selected
    /\ \E i, j \in 1..3 : i < j /\ SortCompare("views-desc", Selected[i], Selected[j]) = 0

(***************************************************************************)
(* The comment tree and the cached comments                                *)
(***************************************************************************)
\* the number of top-level nodes of the tree that are the comment
TopLevelNodes(comment) ==
    Cardinality({k \in 1..Len(tree.nodes) : tree.nodes[k].comment = comment})

\* the number of places in the reply lists of the tree that hold the comment
ReplyPlaces(comment) ==
    Cardinality({p \in (1..Len(tree.nodes)) \X (1..Len(tree.videoComments)) :
                    /\ p[2] <= Len(tree.nodes[p[1]].replies)
                    /\ tree.nodes[p[1]].replies[p[2]] = comment})

HasParent(reply) ==
    \E k \in 1..Len(tree.videoComments) :
        /\ ~tree.videoComments[k].is_reply
        /\ tree.videoComments[k].comment_id = reply.parent_comment_id

\* C18: in the tree a query returns, every comment that is no reply is a
\* top-level node exactly once and in no reply list; a reply whose parent id
\* is the id of a top-level comment is in exactly one reply list; a reply
\* whose parent id matches no top-level comment is in no reply list; and no
\* reply is a top-level node.
C18_CommentTree ==
    tree.returned =>
        \A i \in 1..Len(tree.videoComments) :
            LET comment == tree.videoComments[i] IN
            IF ~comment.is_reply
            THEN TopLevelNodes(comment) = 1 /\ ReplyPlaces(comment) = 0
            ELSE /\ TopLevelNodes(comment) = 0
                 /\ ReplyPlaces(comment) = IF HasParent(comment) THEN 1 ELSE 0

\* C19: the array cached for the video holds the records it held when it
\* was resolved, in the same order, whatever queries and analytics ran.
C19_CacheUntouched ==
    comments.resolved => comments.list = comments.first

\* the place of a comment in the list the loader built from the file
SourcePlace(comment) ==
    CHOOSE k \in 1..Len(comments.first) : comments.first[k] = comment

\* C28: in every reply list of the tree a query returns, the replies are in
\* the order they have in the comment list of the file, whichever sort the
\* query asks for.
C28_RepliesInSourceOrder ==
    tree.returned =>
        \A n \in 1..Len(tree.nodes) :
            \A i, j \in 1..Len(tree.nodes[n].replies) :
                i < j => SourcePlace(tree.nodes[n].replies[i]) <
                         SourcePlace(tree.nodes[n].replies[j])

(***************************************************************************)
(* The cancellation of the bulk export                                     *)
(***************************************************************************)
\* C20: a run of the export for which cancelExport was called begins no
\* video and no comment after the call, and makes no ZIP file after it.
C20_NothingAfterCancel ==
    \A k \in 1..Len(exportService.runs) : exportService.runs[k].late = {}

\* the runs of the export that have not settled
Executing == {k \in 1..Len(exportService.runs) : Running(exportService.runs[k])}

\* the k-th run of the export, once it has begun
RunAt(k) == IF k <= Len(exportService.runs) THEN exportService.runs[k] ELSE NewRun

\* C25: at most one export is executing at any time: no call of the export
\* is let in while another one has not settled, whatever the order of the
\* starts, the calls of cancelExport and the completions.
C25_OneExportAtATime == Cardinality(Executing) <= 1

\* C26: a run of the export for which cancelExport was called while it ran
\* settles in the end, and by rejecting: it does not complete, and it does
\* not go on for ever. (A run cancelled before its list of videos arrived
\* rejects with 'No videos found' when the list is empty; the formula lets
\* that rejection pass as well as 'Export cancelled by user'.)
C26_CancelledRejects ==
    \A k \in 1..MaxExports :
        [](RunAt(k).stopped => <>(RunAt(k).pc \in {"cancelled", "failed"}))

(***************************************************************************)
(* The start of the application                                            *)
(***************************************************************************)
\* no source of the metadata answers with the entries, and the discovery
\* API does not answer with a listing
Unreachable ==
    /\ app.site.api # "up"
    /\ ~Reachable(app.site, directoryHandle)


\* C21: when the user directory, the bundled file and the server all fail,
\* initialize() rejects (it never reaches buildVideoData and never
\* resolves), no video is presented by the grid, and startApp ends by
\* raising the blocking alert "Failed to load the archive".
C21_InitializationFails ==
    Unreachable =>
        /\ app.pc \in {"idle", "api", "root", "explorer", "bundled", "failed"}
        /\ ~videos.built
        /\ dataManager.videos = <<>>
        /\ grid.loaded => grid.finalResult.videos = <<>>
        /\ app.pc = "failed" =>
              /\ app.rejected
              /\ app.alerts = <<LoadFailure>>
              /\ ~app.loadingScreen

C21_Witness ==
    /\ Unreachable
    /\ directoryHandle # NoHandle
    /\ app.site.explorer = "badjson"
    /\ app.pc = "failed"
    /\ app.rejected
    /\ grid.loaded

(***************************************************************************)
(* The video-detail view                                                   *)
(***************************************************************************)
\* every call of showVideoDetail has returned and every load it started
\* has written its panel
Settled == detail.runs = <<>>

\* the detail view of this video is open, and no other video was opened in
\* the session
OnlyOpened(videoId) ==
    /\ detail.currentVideo = videoId
    /\ detail.opened = {videoId}

\* the artifacts of the video that no source holds
Missing(videoId) == {t \in DOMAIN detail.library : videoId \notin detail.library[t]}

C27_PanelsShowCurrent ==
    Settled /\ detail.currentVideo # "" =>
        \A t \in {"transcript", "summary"} :
            detail.panels[t] =
               [video |-> detail.currentVideo,
                state |-> Available(detail.library, t, detail.currentVideo)]

(***************************************************************************)
(* The identifier extraction                                               *)
(***************************************************************************)
\* the filename holds IdLength characters of an id in a row
HasIdRun(filename) ==
    \E i \in 1..Len(filename) :
        /\ i + IdLength - 1 <= Len(filename)
        /\ \A k \in 0..(IdLength - 1) : filename[i + k] \in IdAlphabet

\* C23: extraction is idempotent: when extractShortcode has returned an id
\* for a filename, it returns the same id for every minimal filename made
\* of that id; it returns null exactly when no pattern matches, that is
\* when the filename holds no 11 characters of an id in a row.
C23_Idempotent ==
    /\ extractor.pc = "again" => extractor.again = extractor.id
    /\ extractor.pc # "idle" =>
          /\ extractor.id = NoId <=> ~HasIdRun(extractor.filename)
          /\ extractor.id # NoId =>
                /\ Len(extractor.id) = IdLength
                /\ \A k \in 1..IdLength : extractor.id[k] \in IdAlphabet

\* the id was taken from a longer filename by one of the patterns with a
\* trailing text, and found again in the filename made for another pattern
C23_Witness ==
    /\ extractor.pc = "again"
    /\ extractor.id # NoId
    /\ Len(extractor.filename) > Len(extractor.minimal)
    /\ MatchPositions(extractor.filename, ExtractPatterns[2]) # {}
    /\ MatchPositions(extractor.minimal, ExtractPatterns[5]) # {}

(***************************************************************************)
(* The sources of a chain                                                  *)
(***************************************************************************)
\* the index file can be read and has an entry for the id
Holds(source) == source \in {"has", "undated"}

\* C24: a load call of a transcript, a summary or the comments returns its
\* empty value only if no source of its chain holds the artifact: not when
\* the bundled index has the id, and not when a user directory is set and
\* its flat index file has the id, whatever its structured folder holds.
C24_UnavailableOnlyIfNowhere ==
    \A i \in 1..Len(calls) :
        /\ IsDone(calls[i])
        /\ calls[i].type \in PerVideoTypes
        /\ calls[i].res.kind = Exhausted(calls[i].type).kind
        => /\ ~Holds(fs.bundled)
           /\ directoryHandle # NoHandle => ~Holds(fs.flat)

(***************************************************************************)
(* The comment analytics                                                   *)
(***************************************************************************)
\* the comments among the list that hold the word, by their places
CommentsWith(list, word) ==
    {n \in 1..Len(list) :
        \E k \in 1..Len(LikedWordsOf(list[n])) : LikedWordsOf(list[n])[k] = word}

\* C29: every word analyzeLikedCommentWords reports is in at least two
\* different comments of the most-liked fifth of the comments (of the
\* most-liked comment when there are fewer than ten); it reports at most 15
\* words, and in descending order of their rounded average likes.
C29_LikedWords ==
    "likedWords" \in analysis.ran =>
        /\ Len(analysis.likedWords) <= MaxLikedWords
        /\ \A i, j \in 1..Len(analysis.likedWords) :
              i < j => analysis.likedWords[i].avgLikes >= analysis.likedWords[j].avgLikes
        /\ \A k \in 1..Len(analysis.likedWords) :
              Cardinality(CommentsWith(TopComments(analysis.comments),
                                       analysis.likedWords[k].word)) >= 2

\* the comments of the list that contain a keyword of the theme
Mentioning(list, theme) ==
    {n \in 1..Len(list) : hasKeyword(toLowerCase(list[n].text), theme)}

\* C30: analyzeThemes reports for a theme the number of comments that
\* contain a keyword of the theme, however many of its keywords a comment
\* contains; a theme no comment mentions is not reported.
C30_ThemeCounts ==
    "themes" \in analysis.ran =>
        \A t \in 1..Len(Themes) :
            LET reported == {k \in 1..Len(analysis.themes) :
                                analysis.themes[k].theme = Themes[t].theme}
                mentioning == Mentioning(analysis.comments, Themes[t])
            IN  IF mentioning = {} THEN reported = {}
                ELSE /\ Cardinality(reported) = 1
                     /\ \A k \in reported :
                           analysis.themes[k].count = Cardinality(mentioning)

\* the themes were counted over comments of which one contains three
\* keywords of a theme, and the theme is reported
C30_Witness ==
    /\ "themes" \in analysis.ran
    /\ \E t \in 1..Len(Themes), n \in 1..Len(analysis.comments) :
          /\ ThemeHitsPerKeyword(toLowerCase(analysis.comments[n].text), Themes[t]) >= 3
          /\ \E k \in 1..Len(analysis.themes) :
                analysis.themes[k].theme = Themes[t].theme

====
